---- MODULE Spec2Model ----
(***************************************************************************)
(* PortalAR backend: the content-delivery and analytics API over its       *)
(* pluggable storage adapters (SQLite, Firestore).                         *)
(*                                                                         *)
(* Two specifications share the state:                                     *)
(*   ContentSpec    the content routes (GET/POST/DELETE /api/content) over *)
(*                  the content table / collection of the active adapter;  *)
(*   AnalyticsSpec  event ingest and the summary routes over the analytics *)
(*                  table / collection of the active adapter.              *)
(*                                                                         *)
(* The PostgreSQL placeholder adapter is not an adapter the process can    *)
(* serve with: its initialize() throws and the startup code exits.         *)
(***************************************************************************)
EXTENDS Integers, Sequences, FiniteSets, TLC

\* ------------------------------------------------------------------------
\* Bounds
\* ------------------------------------------------------------------------
MaxTime == 2        \* the clock runs over 0..MaxTime
MaxEvents == 2      \* analytics rows stored in one behaviour
MaxDuration == 1    \* view durations run over 0..MaxDuration
MaxHits == 6        \* login requests counted by the limiter in one window
MaxInflight == 5    \* login requests awaiting the password comparison

\* ------------------------------------------------------------------------
\* Values
\* ------------------------------------------------------------------------
\* JavaScript undefined (an omitted JSON key) and null (an SQL NULL column):
\* both read as "absent".
Absent == "<absent>"
\* The same for the structured style field and for numeric / time fields.
NoStyle == <<>>
NoTime == -1
\* A value of expiresAt that is not an ISO 8601 date.
BadTime == -2

Times == 0..MaxTime

\* An omitted duration, and a negative one.
NoDuration == -1
NegativeDuration == -5

EventTypes == {"scan", "viewDuration", "click", "share"}

\* Marker ids as they arrive in the path: two ordinary ids and a blank one.
BlankMarkerId == " "
MarkerIds == {"m1", "m2"}
PathMarkerIds == MarkerIds \cup {BlankMarkerId}

\* Bearer tokens a request can carry.
Tokens == {"none", "valid", "expired", "invalid"}

ContentTypes == {"video", "news", "3d", "image"}

\* A style object {backgroundColor, textColor, accentColor}.
Style1 == <<"#000", "#fff", "#0f8">>

\* Strings that validator.js isURL accepts.
ValidUrls == {"https://a.example/x", "https://www.b.example/y"}

VARIABLES
    adapter,            \* currentAdapter of the storage facade
    now,                \* the wall clock (new Date(), CURRENT_TIMESTAMP)
    sqliteContent,      \* rows of the SQLite table content
    firestoreContent,   \* documents of the Firestore collection content
    sqliteAnalytics,    \* rows of the SQLite table analytics, in id order
    firestoreAnalytics, \* documents of the Firestore collection analytics
    resp,               \* the last HTTP response
    lastInput,          \* history: per marker, the last accepted upsert body
    ingested,           \* history: the accepted analytics events, in order
    issued,             \* history: the tokens signed by POST /api/auth/login
    hits,               \* authLimiter's store: the hit count per source
    inflight,           \* login requests awaiting bcrypt.compare, per
                        \* source and password
    failed,             \* history: per source, the login attempts answered
                        \* with an error in the current rate-limit window
    env,                \* process.env: the Perplexity settings and NODE_ENV
    summarized,         \* history: the last summarizeArticle call, with its
                        \* outcome
    client,             \* the AR client: its build setting, its device and
                        \* the state of its ScanPage component
    storage             \* the server process and its storage: how far
                        \* initialize() has come, the database handle,
                        \* whether the server listens, the close() calls

vars == <<adapter, now, sqliteContent, firestoreContent, sqliteAnalytics,
          firestoreAnalytics, resp, lastInput, ingested,
          issued, hits, inflight, failed, env, summarized, client, storage>>

contentVars == <<sqliteContent, firestoreContent, lastInput>>
analyticsVars == <<sqliteAnalytics, firestoreAnalytics, ingested>>
authVars == <<issued, hits, inflight, failed>>

\* The state outside the content and analytics stores.
perplexityVars == <<env, summarized>>
clientVars == <<client>>
lifecycleVars == <<storage>>
extraVars == <<authVars, perplexityVars, clientVars, lifecycleVars>>

\* The passwords a login request can carry: the admin's, another one, and
\* an empty one.
AdminPassword == "right"
Passwords == {AdminPassword, "wrong", ""}

\* The source addresses (req.ip) login requests come from.
Sources == {"ip1", "ip2"}

\* The Perplexity settings of a fresh checkout (no API key, mock mode not
\* set, integration not disabled); summarizeArticle has not been called.
NoCall ==
    [called |-> FALSE, url |-> "", outcome |-> "", threw |-> FALSE,
     message |-> "", headline |-> "", summary |-> "", source |-> "",
     mock |-> FALSE]
PerplexityIdle ==
    /\ env = [PERPLEXITY_MOCK_MODE |-> FALSE, PERPLEXITY_API_KEY |-> FALSE,
              ENABLE_PERPLEXITY |-> TRUE, NODE_ENV |-> Absent]
    /\ summarized = NoCall

\* The AR client before ScanPage is mounted, in a build with the given
\* REACT_APP_DEMO_MODE on a device with the given WebAR support.
Unmounted(demoMode, supported) ==
    [DEMO_MODE |-> demoMode, supported |-> supported, mounted |-> FALSE,
     markerId |-> "", loading |-> FALSE, content |-> <<>>, error |-> "",
     fetched |-> "none", markerVisible |-> FALSE, scanStartTime |-> -1,
     tracked |-> <<>>]

\* The server process in service: initialize() has completed, the database
\* handle is open with its schema, the server listens; close() was never
\* called and no request was handled before initialization completed.
\* The two callers of setContent the model follows, and a caller that has
\* not called.
Callers == {1, 2}
NotCalled == [pc |-> "idle", markerId |-> "", content |-> <<>>]

InService ==
    [currentAdapter |-> TRUE, init |-> "done", handle |-> "open",
     schema |-> TRUE, listening |-> TRUE, exited |-> FALSE, closes |-> <<>>,
     early |-> FALSE, calls |-> [c \in Callers |-> NotCalled]]
LifecycleIdle == storage = InService

\* A live build on a supporting device, no page opened.
ClientIdle == client = Unmounted(FALSE, TRUE)

\* No login has been attempted.
AuthIdle ==
    /\ issued = {}
    /\ hits = [s \in Sources |-> 0]
    /\ inflight = [s \in Sources |-> [p \in Passwords \ {""} |-> 0]]
    /\ failed = [s \in Sources |-> 0]

\* ------------------------------------------------------------------------
\* JavaScript helpers
\* ------------------------------------------------------------------------
\* Truthiness of a string-valued field: undefined, null and "" are falsy.
Truthy(v) == v # Absent /\ v # ""

\* `v || null`
OrNull(v) == IF Truthy(v) THEN v ELSE Absent

\* JSON.stringify of a style object: the serialized text, modelled as the
\* token sequence of the object literal.
JSONstringify(style) ==
    <<"{">> \o style \o <<"}">>

\* JSON.parse of a serialized style.
JSONparse(text) ==
    SubSeq(text, 2, Len(text) - 1)

\* ------------------------------------------------------------------------
\* Request bodies of POST /api/content/:markerId
\* ------------------------------------------------------------------------
EmptyBody ==
    [type |-> Absent, title |-> Absent, summary |-> Absent, url |-> Absent,
     videoUrl |-> Absent, posterUrl |-> Absent, modelUrl |-> Absent,
     imageUrl |-> Absent, ctaText |-> Absent, ctaUrl |-> Absent,
     style |-> NoStyle, expiresAt |-> NoTime,
     markerId |-> Absent]     \* a markerId key of the body's own

Bodies ==
    { \* accepted
      [EmptyBody EXCEPT !.type = "3d", !.title = "T", !.summary = "S",
                        !.modelUrl = "https://a.example/x"],
      [EmptyBody EXCEPT !.type = "news", !.title = "T"],
      [EmptyBody EXCEPT !.type = "image", !.title = ""],
      [EmptyBody EXCEPT !.type = "video", !.videoUrl = "https://a.example/x",
                        !.style = Style1, !.expiresAt = 1],
      \* rejected
      [EmptyBody EXCEPT !.type = "news"],
      [EmptyBody EXCEPT !.type = "news", !.title = ""],
      [EmptyBody EXCEPT !.type = "image", !.imageUrl = "not a url"],
      [EmptyBody EXCEPT !.type = "image", !.expiresAt = BadTime],
      [EmptyBody EXCEPT !.type = "video", !.title = "T"],
      [EmptyBody EXCEPT !.type = "3d", !.title = "T"],
      [EmptyBody EXCEPT !.type = "audio", !.title = "T"],
      [EmptyBody EXCEPT !.title = "T"] }

\* The content fields of a record returned by getContent.
ContentFields(c) ==
    [type |-> c.type, title |-> c.title, summary |-> c.summary, url |-> c.url,
     videoUrl |-> c.videoUrl, posterUrl |-> c.posterUrl,
     modelUrl |-> c.modelUrl, imageUrl |-> c.imageUrl, ctaText |-> c.ctaText,
     ctaUrl |-> c.ctaUrl, style |-> c.style, expiresAt |-> c.expiresAt]

\* ------------------------------------------------------------------------
\* SQLite adapter: content
\* ------------------------------------------------------------------------
parseContentRow(row) ==
    [markerId |-> row.marker_id, type |-> row.type, title |-> row.title,
     summary |-> row.summary, url |-> row.url, videoUrl |-> row.video_url,
     posterUrl |-> row.poster_url, modelUrl |-> row.model_url,
     imageUrl |-> row.image_url, ctaText |-> row.cta_text,
     ctaUrl |-> row.cta_url,
     style |-> IF row.style # NoStyle THEN JSONparse(row.style) ELSE NoStyle,
     expiresAt |-> row.expires_at]

\* The values bound to the INSERT statement's parameters.
sqlite_contentRow(markerId, content) ==
    [marker_id |-> markerId, type |-> content.type,
     title |-> OrNull(content.title), summary |-> OrNull(content.summary),
     url |-> OrNull(content.url), video_url |-> OrNull(content.videoUrl),
     poster_url |-> OrNull(content.posterUrl),
     model_url |-> OrNull(content.modelUrl),
     image_url |-> OrNull(content.imageUrl),
     cta_text |-> OrNull(content.ctaText), cta_url |-> OrNull(content.ctaUrl),
     style |-> IF content.style # NoStyle THEN JSONstringify(content.style)
                                          ELSE NoStyle,
     expires_at |-> content.expiresAt]   \* `expiresAt || null`

\* SELECT * FROM content WHERE marker_id = ?  (db.get: the first row or none)
sqlite_getContent(table, markerId) ==
    LET rows == {r \in table : r.marker_id = markerId}
    IN IF rows = {} THEN <<>>
       ELSE <<parseContentRow(CHOOSE r \in rows : TRUE)>>

\* Mutant: a plain INSERT, without the ON CONFLICT(marker_id) DO UPDATE arm.
sqlite_setContent_insertOnly(table, markerId, content) ==
    table \cup {sqlite_contentRow(markerId, content)}

\* INSERT ... ON CONFLICT(marker_id) DO UPDATE SET ...: the table afterwards.
\* (The system-managed created_at / updated_at columns are left out: no
\* content field depends on them.)
sqlite_setContent(table, markerId, content) ==
    LET old == {r \in table : r.marker_id = markerId}
    IN IF old = {}
       THEN table \cup {sqlite_contentRow(markerId, content)}
       ELSE (table \ old) \cup
            {sqlite_contentRow(r.marker_id, content) : r \in old}

\* DELETE FROM content WHERE marker_id = ?: the table afterwards; the
\* result's deleted flag is this.changes > 0.
sqlite_deleteContent(table, markerId) ==
    {r \in table : r.marker_id # markerId}

sqlite_deleted(table, markerId) ==
    Cardinality({r \in table : r.marker_id = markerId}) > 0

\* ------------------------------------------------------------------------
\* Firestore adapter: content
\* ------------------------------------------------------------------------
\* A new document: the body's keys.
firebase_newDoc(markerId, content) ==
    [id |-> markerId, markerId |-> content.markerId,
     type |-> content.type, title |-> content.title,
     summary |-> content.summary, url |-> content.url,
     videoUrl |-> content.videoUrl, posterUrl |-> content.posterUrl,
     modelUrl |-> content.modelUrl, imageUrl |-> content.imageUrl,
     ctaText |-> content.ctaText, ctaUrl |-> content.ctaUrl,
     style |-> content.style, expiresAt |-> content.expiresAt]

\* docRef.set(data, { merge: true }) on an existing document: the keys the
\* data carries are overwritten, every other key of the document is kept.
firebase_mergeDoc(doc, content) ==
    LET pick(new, old) == IF new # Absent THEN new ELSE old
    IN [id |-> doc.id,
        markerId |-> pick(content.markerId, doc.markerId),
        type |-> pick(content.type, doc.type),
        title |-> pick(content.title, doc.title),
        summary |-> pick(content.summary, doc.summary),
        url |-> pick(content.url, doc.url),
        videoUrl |-> pick(content.videoUrl, doc.videoUrl),
        posterUrl |-> pick(content.posterUrl, doc.posterUrl),
        modelUrl |-> pick(content.modelUrl, doc.modelUrl),
        imageUrl |-> pick(content.imageUrl, doc.imageUrl),
        ctaText |-> pick(content.ctaText, doc.ctaText),
        ctaUrl |-> pick(content.ctaUrl, doc.ctaUrl),
        style |-> IF content.style # NoStyle THEN content.style ELSE doc.style,
        expiresAt |-> IF content.expiresAt # NoTime THEN content.expiresAt
                                                     ELSE doc.expiresAt]

firebase_getContent(docs, markerId) ==
    LET found == {d \in docs : d.id = markerId}
    IN IF found = {} THEN <<>>
       ELSE LET d == CHOOSE x \in found : TRUE
            IN <<[markerId |-> IF d.markerId # Absent THEN d.markerId
                                                        ELSE markerId,
                  type |-> d.type, title |-> d.title,
                  summary |-> d.summary, url |-> d.url,
                  videoUrl |-> d.videoUrl, posterUrl |-> d.posterUrl,
                  modelUrl |-> d.modelUrl, imageUrl |-> d.imageUrl,
                  ctaText |-> d.ctaText, ctaUrl |-> d.ctaUrl,
                  style |-> d.style, expiresAt |-> d.expiresAt]>>

\* The collection after setContent.
firebase_setContent(docs, markerId, content) ==
    LET old == {d \in docs : d.id = markerId}
    IN IF old = {}
       THEN docs \cup {firebase_newDoc(markerId, content)}
       ELSE (docs \ old) \cup {firebase_mergeDoc(d, content) : d \in old}

\* docRef.delete(): the collection afterwards; the result is always
\* { deleted: true }.
firebase_deleteContent(docs, markerId) ==
    {d \in docs : d.id # markerId}

firebase_deleted(docs, markerId) == TRUE

\* ------------------------------------------------------------------------
\* Storage facade (database/index.js): forwards to currentAdapter
\* ------------------------------------------------------------------------
getContent(markerId) ==
    IF adapter = "sqlite" THEN sqlite_getContent(sqliteContent, markerId)
                          ELSE firebase_getContent(firestoreContent, markerId)

setContent(markerId, content) ==
    IF adapter = "sqlite"
    THEN /\ sqliteContent' =
                sqlite_setContent(sqliteContent, markerId, content)
         /\ UNCHANGED firestoreContent
    ELSE /\ firestoreContent' =
                firebase_setContent(firestoreContent, markerId, content)
         /\ UNCHANGED sqliteContent

deleteContent(markerId) ==
    IF adapter = "sqlite"
    THEN /\ sqliteContent' = sqlite_deleteContent(sqliteContent, markerId)
         /\ UNCHANGED firestoreContent
    ELSE /\ firestoreContent' =
                firebase_deleteContent(firestoreContent, markerId)
         /\ UNCHANGED sqliteContent

deleted(markerId) ==
    IF adapter = "sqlite" THEN sqlite_deleted(sqliteContent, markerId)
                          ELSE firebase_deleted(firestoreContent, markerId)

\* The marker ids that have a stored Content record, with multiplicity.
RecordCount(markerId) ==
    IF adapter = "sqlite"
    THEN Cardinality({r \in sqliteContent : r.marker_id = markerId})
    ELSE Cardinality({d \in firestoreContent : d.id = markerId})

\* ------------------------------------------------------------------------
\* Middleware and validators
\* ------------------------------------------------------------------------
\* Mutant: an expired token passes.
authenticateToken_ignoreExpiry(token) ==
    CASE token = "none" -> 401
      [] token = "invalid" -> 403
      [] OTHER -> 0

\* authenticateToken: 0 when the request passes on to the handler, else the
\* status of the AppError handed to next().
authenticateToken(token) ==
    CASE token = "none" -> 401
      [] token = "expired" -> 401
      [] token = "invalid" -> 403
      [] OTHER -> 0

\* The .trim() sanitizer of the markerId chain.
Trim(markerId) == IF markerId = BlankMarkerId THEN "" ELSE markerId

\* param('markerId').isString().trim().notEmpty()
markerIdValid(markerId) == Trim(markerId) # ""

\* .optional().isURL(): only an omitted key is skipped.
optionalIsURL(v) == v = Absent \/ v \in ValidUrls

\* Mutant: the type chain accepts any string.
postValidators_anyType(markerId, b) ==
    /\ markerIdValid(markerId)
    /\ b.type # Absent
    /\ optionalIsURL(b.url) /\ optionalIsURL(b.videoUrl)
    /\ optionalIsURL(b.posterUrl) /\ optionalIsURL(b.modelUrl)
    /\ optionalIsURL(b.imageUrl) /\ optionalIsURL(b.ctaUrl)
    /\ b.expiresAt # BadTime

\* The validation chain of POST /api/content/:markerId: TRUE when
\* validationResult(req) is empty.
postValidators(markerId, b) ==
    /\ markerIdValid(markerId)
    /\ b.type \in ContentTypes
    /\ optionalIsURL(b.url) /\ optionalIsURL(b.videoUrl)
    /\ optionalIsURL(b.posterUrl) /\ optionalIsURL(b.modelUrl)
    /\ optionalIsURL(b.imageUrl) /\ optionalIsURL(b.ctaUrl)
    /\ b.expiresAt # BadTime

\* Mutant: news content is not asked for its title.
typeSpecificValid_noNews(b) ==
    /\ ~(b.type = "video" /\ ~Truthy(b.videoUrl))
    /\ ~(b.type = "3d" /\ ~Truthy(b.modelUrl))

\* The handler's type-specific checks: TRUE when none throws.
typeSpecificValid(b) ==
    /\ ~(b.type = "video" /\ ~Truthy(b.videoUrl))
    /\ ~(b.type = "3d" /\ ~Truthy(b.modelUrl))
    /\ ~(b.type = "news" /\ ~Truthy(b.title))

\* Mutant: expiry compared with <= instead of <.
isExpired_orEqual(content, t) ==
    content.expiresAt # NoTime /\ content.expiresAt <= t

\* content.expiresAt && new Date(content.expiresAt) < new Date()
isExpired(content, t) ==
    content.expiresAt # NoTime /\ content.expiresAt < t

\* { markerId, ...content }: a markerId key of content comes last and wins.
SavedContent(markerId, content) ==
    [markerId |-> IF content.markerId # Absent THEN content.markerId
                                               ELSE markerId,
     type |-> content.type, title |-> content.title,
     summary |-> content.summary, url |-> content.url,
     videoUrl |-> content.videoUrl, posterUrl |-> content.posterUrl,
     modelUrl |-> content.modelUrl, imageUrl |-> content.imageUrl,
     ctaText |-> content.ctaText, ctaUrl |-> content.ctaUrl,
     style |-> content.style, expiresAt |-> content.expiresAt]

\* A response as sent by res.json / the error handler. existed is history:
\* whether a Content record was stored for the marker when the request
\* arrived.
Response(route, markerId, status, data, existed) ==
    [route |-> route, markerId |-> markerId, status |-> status, data |-> data,
     existed |-> existed]

\* ------------------------------------------------------------------------
\* Content routes
\* ------------------------------------------------------------------------
\* GET /api/content/:markerId (public)
GetContentRoute(pathId) ==
    LET content == getContent(Trim(pathId))
        existed == content # <<>>
    IN /\ resp' =
            IF ~markerIdValid(pathId)
            THEN Response("GET", pathId, 400, <<>>, existed)
            ELSE IF content = <<>>
            THEN Response("GET", pathId, 404, <<>>, existed)
            ELSE IF isExpired(content[1], now)
            THEN Response("GET", pathId, 410,
                          <<[expiresAt |-> content[1].expiresAt]>>, existed)
            ELSE Response("GET", pathId, 200, content, existed)
       /\ UNCHANGED <<extraVars, adapter, now, contentVars, analyticsVars>>

\* POST /api/content/:markerId (admin)
PostContentRoute(pathId, token, body) ==
    LET existed == RecordCount(Trim(pathId)) > 0
    IN IF authenticateToken(token) # 0
       THEN /\ resp' = Response("POST", pathId, authenticateToken(token),
                                <<>>, existed)
            /\ UNCHANGED <<extraVars, adapter, now, contentVars, analyticsVars>>
       ELSE IF ~postValidators(pathId, body) \/ ~typeSpecificValid(body)
       THEN /\ resp' = Response("POST", pathId, 400, <<>>, existed)
            /\ UNCHANGED <<extraVars, adapter, now, contentVars, analyticsVars>>
       ELSE /\ setContent(Trim(pathId), body)
            /\ lastInput' = [lastInput EXCEPT ![Trim(pathId)] = <<body>>]
            /\ resp' = Response("POST", pathId, 200,
                                <<SavedContent(Trim(pathId), body)>>, existed)
            /\ UNCHANGED <<extraVars, adapter, now, analyticsVars>>

\* DELETE /api/content/:markerId (admin); its validation chain runs but the
\* handler never reads validationResult.
DeleteContentRoute(pathId, token) ==
    LET existed == RecordCount(Trim(pathId)) > 0
    IN IF authenticateToken(token) # 0
       THEN /\ resp' = Response("DELETE", pathId, authenticateToken(token),
                                <<>>, existed)
            /\ UNCHANGED <<extraVars, adapter, now, contentVars, analyticsVars>>
       ELSE IF adapter = "firebase" /\ Trim(pathId) = ""
       THEN \* collection.doc('') throws: not a valid resource path
            /\ resp' = Response("DELETE", pathId, 500, <<>>, existed)
            /\ UNCHANGED <<extraVars, adapter, now, contentVars, analyticsVars>>
       ELSE /\ deleteContent(Trim(pathId))
            /\ lastInput' = [m \in MarkerIds |->
                               IF m = Trim(pathId) /\ deleted(m)
                               THEN <<>> ELSE lastInput[m]]
            /\ resp' = Response("DELETE", pathId,
                                IF deleted(Trim(pathId)) THEN 200 ELSE 404,
                                <<>>, existed)
            /\ UNCHANGED <<extraVars, adapter, now, analyticsVars>>

\* Time passes.
Tick ==
    /\ now < MaxTime
    /\ now' = now + 1
    /\ UNCHANGED <<extraVars, adapter, contentVars, analyticsVars, resp>>

\* ------------------------------------------------------------------------
\* Specification of the content routes
\* ------------------------------------------------------------------------
Init ==
    /\ adapter \in {"sqlite", "firebase"}
    /\ now = 0
    /\ sqliteContent = {}
    /\ firestoreContent = {}
    /\ sqliteAnalytics = <<>>
    /\ firestoreAnalytics = <<>>
    /\ resp = Response("none", "", 0, <<>>, FALSE)
    /\ lastInput = [m \in MarkerIds |-> <<>>]
    /\ ingested = <<>>
    /\ AuthIdle
    /\ PerplexityIdle
    /\ ClientIdle
    /\ LifecycleIdle

ContentNext ==
    \/ \E pathId \in PathMarkerIds : GetContentRoute(pathId)
    \/ \E pathId \in PathMarkerIds, body \in Bodies :
           PostContentRoute(pathId, "valid", body)
    \/ \E pathId \in PathMarkerIds, token \in Tokens \ {"valid"} :
           \* the body is not read when authentication fails
           PostContentRoute(pathId, token, EmptyBody)
    \/ \E pathId \in PathMarkerIds, token \in Tokens :
           DeleteContentRoute(pathId, token)
    \/ Tick

ContentSpec == Init /\ [][ContentNext]_vars

\* ------------------------------------------------------------------------
\* Properties of the content store and routes
\* ------------------------------------------------------------------------
OptionalFields ==
    {"title", "summary", "url", "videoUrl", "posterUrl", "modelUrl",
     "imageUrl", "ctaText", "ctaUrl", "style", "expiresAt"}

\* Field f of content record c is absent.
Omitted(c, f) ==
    CASE f = "style" -> c[f] = NoStyle
      [] f = "expiresAt" -> c[f] = NoTime
      [] OTHER -> c[f] = Absent

\* C1: after an accepted setContent(markerId, input) with no later write to
\* that markerId, getContent(markerId) returns a record whose content fields
\* equal the input.
C1_RoundTrip ==
    \A m \in MarkerIds :
        lastInput[m] # <<>> =>
            /\ getContent(m) # <<>>
            /\ ContentFields(getContent(m)[1]) =
                   ContentFields(lastInput[m][1])

\* No marker id has two stored records.
C2_AtMostOne ==
    \A m \in MarkerIds \cup {""} : RecordCount(m) <= 1

\* A step from one accepted upsert to the same accepted upsert again.
C2_Idempotent ==
    ( /\ resp.route = "POST" /\ resp.status = 200
      /\ resp'.route = "POST" /\ resp'.status = 200
      /\ resp'.markerId = resp.markerId
      /\ resp'.data = resp.data )
    => /\ RecordCount(Trim(resp.markerId))' = 1
       /\ getContent(Trim(resp.markerId))' = getContent(Trim(resp.markerId))

\* C2: the store holds at most one Content record per markerId, and an
\* accepted upsert repeated with the same markerId and input leaves exactly
\* one record, with the content fields it had after the first call.
C2_OneRecordPerMarker ==
    [](C2_AtMostOne) /\ [][C2_Idempotent]_vars

\* C2 witness: an accepted upsert over an existing record.
C2_Witness ==
    /\ resp.route = "POST" /\ resp.status = 200 /\ resp.existed
    /\ RecordCount(Trim(resp.markerId)) = 1
    /\ \E m \in MarkerIds : m # resp.markerId /\ RecordCount(m) = 1

\* C3: setContent replaces: every optional field omitted from the last
\* accepted input is absent from the record getContent returns, whatever the
\* previous version of the record held.
C3_ReplaceNotPatch ==
    \A m \in MarkerIds : \A f \in OptionalFields :
        (lastInput[m] # <<>> /\ Omitted(lastInput[m][1], f)) =>
            (getContent(m) # <<>> /\ Omitted(getContent(m)[1], f))

\* The bodies C4 is about: a type outside the enumeration, or the field the
\* type requires left out.
InvalidUpsert(b) ==
    \/ b.type \notin ContentTypes
    \/ b.type = "video" /\ b.videoUrl = Absent
    \/ b.type = "3d" /\ b.modelUrl = Absent
    \/ b.type = "news" /\ b.title = Absent

C5_FetchOutcome ==
    [][ \A p \in MarkerIds :
          GetContentRoute(p) =>
              LET c == getContent(p)
              IN /\ resp'.status \in {200, 404, 410}
                 /\ resp'.status = 404 <=> c = <<>>
                 /\ resp'.status = 410 <=>
                        (c # <<>> /\ c[1].expiresAt # NoTime
                                  /\ c[1].expiresAt < now)
                 /\ resp'.status = 200 => resp'.data = c
                 /\ resp'.status = 410 =>
                        resp'.data = <<[expiresAt |-> c[1].expiresAt]>> ]_vars

\* C5 witness: a record served at the very instant of its expiresAt.
C5_Witness ==
    /\ resp.route = "GET" /\ resp.status = 200
    /\ resp.data[1].expiresAt = now

\* C6: deleting an absent marker answers 404 and changes nothing; deleting an
\* existing marker succeeds and leaves no record for it.
C6_DeleteOutcome ==
    [][ \A p \in MarkerIds :
          DeleteContentRoute(p, "valid") =>
              IF RecordCount(p) = 0
              THEN resp'.status = 404 /\ UNCHANGED contentVars
              ELSE resp'.status = 200 /\ getContent(p)' = <<>> ]_vars

\* ------------------------------------------------------------------------
\* Analytics events
\* ------------------------------------------------------------------------
\* Request bodies of POST /api/analytics. A duration accompanies only
\* viewDuration events, as in the client; a client timestamp, when given,
\* is time 0 (a scan queued earlier and sent late). The second marker and
\* the blank one receive a few events only: they are there to show that one
\* marker's events stay out of another marker's summary.
EventInputs ==
    { e \in [markerId : {"m1"},
             eventType : EventTypes \cup {"hover"},
             timestamp : {NoTime, 0},
             duration : {NoDuration, NegativeDuration} \cup (0..MaxDuration)] :
        /\ e.duration # NoDuration => e.eventType = "viewDuration"
        /\ e.timestamp # NoTime => e.eventType = "scan" }
    \cup
    { e \in [markerId : {"m2", BlankMarkerId},
             eventType : {"scan", "click", "viewDuration"},
             timestamp : {NoTime},
             duration : {NoDuration, MaxDuration}] :
        e.duration # NoDuration <=> e.eventType = "viewDuration" }

\* Rationals as <<numerator, denominator>>; zero is <<0, 1>>.
Zero == <<0, 1>>
RatEq(a, b) == a[1] * b[2] = b[1] * a[2]

RECURSIVE SumOver(_, _)
\* The sum of f[i] over the finite index set S.
SumOver(f, S) ==
    IF S = {} THEN 0
    ELSE LET i == CHOOSE x \in S : TRUE
         IN f[i] + SumOver(f, S \ {i})

MaxOf(S) == CHOOSE x \in S : \A y \in S : y <= x

\* All orderings of the set S of summaries by totalScans, descending.
SortedByScans(S) ==
    { q \in [1..Cardinality(S) -> S] :
        /\ \A i, j \in 1..Cardinality(S) : i # j => q[i] # q[j]
        /\ \A i, j \in 1..Cardinality(S) :
               i < j => q[i].totalScans >= q[j].totalScans }

ZeroSummary(markerId) ==
    [markerId |-> markerId, totalScans |-> 0, totalClicks |-> 0,
     avgDuration |-> Zero, lastScan |-> NoTime]

\* ------------------------------------------------------------------------
\* SQLite adapter: analytics
\* ------------------------------------------------------------------------
\* The row INSERTed by recordAnalyticsEvent (the columns the summaries read).
sqlite_analyticsRow(id, event, t) ==
    [id |-> id, marker_id |-> event.markerId, event_type |-> event.eventType,
     timestamp |-> IF event.timestamp # NoTime THEN event.timestamp ELSE t,
     duration |-> IF event.duration # NoDuration /\ event.duration # 0
                  THEN event.duration ELSE NoDuration]

sqlite_recordAnalyticsEvent(rows, event, t) ==
    Append(rows, sqlite_analyticsRow(Len(rows) + 1, event, t))

\* The aggregate row of one marker_id group.
\* COUNT(CASE ...), AVG(CASE ... THEN duration END) (NULLs skipped; the
\* `|| 0` of the callers maps NULL and 0 to 0), MAX(timestamp).
sqlite_groupRow(rows, markerId) ==
    LET mine == {i \in DOMAIN rows : rows[i].marker_id = markerId}
        durs == {i \in mine : /\ rows[i].event_type = "viewDuration"
                              /\ rows[i].duration # NoDuration}
        total == SumOver([i \in DOMAIN rows |-> rows[i].duration], durs)
    IN [marker_id |-> markerId,
        total_scans |->
            Cardinality({i \in mine : rows[i].event_type = "scan"}),
        total_clicks |->
            Cardinality({i \in mine : rows[i].event_type = "click"}),
        avg_duration |->
            IF durs = {} \/ total = 0 THEN Zero
                                      ELSE <<total, Cardinality(durs)>>,
        last_scan |-> MaxOf({rows[i].timestamp : i \in mine})]

sqlite_summaryOfRow(row) ==
    [markerId |-> row.marker_id, totalScans |-> row.total_scans,
     totalClicks |-> row.total_clicks, avgDuration |-> row.avg_duration,
     lastScan |-> row.last_scan]

\* Mutant: the aggregate query without its WHERE marker_id = ? clause.
sqlite_getAnalyticsSummary_noWhere(rows, markerId) ==
    IF rows = <<>> THEN ZeroSummary(markerId)
    ELSE LET anyId == rows[1].marker_id
             all == [i \in DOMAIN rows |->
                        [rows[i] EXCEPT !.marker_id = anyId]]
         IN IF sqlite_groupRow(all, anyId).total_scans = 0
            THEN ZeroSummary(markerId)
            ELSE sqlite_summaryOfRow(sqlite_groupRow(all, anyId))

sqlite_getAnalyticsSummary(rows, markerId) ==
    IF \A i \in DOMAIN rows : rows[i].marker_id # markerId
    THEN ZeroSummary(markerId)                       \* !row
    ELSE IF sqlite_groupRow(rows, markerId).total_scans = 0
    THEN ZeroSummary(markerId)                       \* !row.total_scans
    ELSE sqlite_summaryOfRow(sqlite_groupRow(rows, markerId))

\* The possible results: one summary per marker_id group, ORDER BY
\* total_scans DESC (ties in any order).
sqlite_getAllAnalyticsSummaries(rows) ==
    SortedByScans({ sqlite_summaryOfRow(sqlite_groupRow(rows, m)) :
                      m \in {rows[i].marker_id : i \in DOMAIN rows} })

\* ------------------------------------------------------------------------
\* Firestore adapter: analytics
\* ------------------------------------------------------------------------
firebase_analyticsDoc(id, event, t) ==
    [id |-> id, markerId |-> event.markerId, eventType |-> event.eventType,
     timestamp |-> IF event.timestamp # NoTime THEN event.timestamp ELSE t,
     duration |-> IF event.duration # NoDuration /\ event.duration # 0
                  THEN event.duration ELSE NoDuration]

firebase_recordAnalyticsEvent(docs, event, t) ==
    Append(docs, firebase_analyticsDoc(Len(docs) + 1, event, t))

\* The forEach loop over a marker's documents.
firebase_summarize(docs, markerId) ==
    LET mine == {i \in DOMAIN docs : docs[i].markerId = markerId}
        scans == {i \in mine : docs[i].eventType = "scan"}
        durs == {i \in mine : /\ docs[i].eventType = "viewDuration"
                              /\ docs[i].duration # NoDuration
                              /\ docs[i].duration # 0}
        totalDuration == SumOver([i \in DOMAIN docs |-> docs[i].duration], durs)
    IN [markerId |-> markerId,
        totalScans |-> Cardinality(scans),
        totalClicks |->
            Cardinality({i \in mine : docs[i].eventType = "click"}),
        avgDuration |->
            IF Cardinality(durs) > 0 /\ totalDuration # 0
            THEN <<totalDuration, Cardinality(durs)>> ELSE Zero,
        lastScan |->
            IF scans = {} THEN NoTime
            ELSE MaxOf({docs[i].timestamp : i \in scans})]

firebase_getAnalyticsSummary(docs, markerId) ==
    firebase_summarize(docs, markerId)

\* Object.values(summaries) in first-appearance order, then a stable sort
\* by totalScans descending.
firebase_getAllAnalyticsSummaries(docs) ==
    LET first(m) ==
            CHOOSE i \in DOMAIN docs :
                /\ docs[i].markerId = m
                /\ \A k \in DOMAIN docs : docs[k].markerId = m => i <= k
        S == { firebase_summarize(docs, m) :
                 m \in {docs[i].markerId : i \in DOMAIN docs} }
    IN { q \in SortedByScans(S) :
           \A i, j \in DOMAIN q :
               (i < j /\ q[i].totalScans = q[j].totalScans) =>
                   first(q[i].markerId) < first(q[j].markerId) }

\* ------------------------------------------------------------------------
\* Storage facade: analytics
\* ------------------------------------------------------------------------
recordAnalyticsEvent(event) ==
    IF adapter = "sqlite"
    THEN /\ sqliteAnalytics' =
                sqlite_recordAnalyticsEvent(sqliteAnalytics, event, now)
         /\ UNCHANGED firestoreAnalytics
    ELSE /\ firestoreAnalytics' =
                firebase_recordAnalyticsEvent(firestoreAnalytics, event, now)
         /\ UNCHANGED sqliteAnalytics

getAnalyticsSummary(markerId) ==
    IF adapter = "sqlite"
    THEN sqlite_getAnalyticsSummary(sqliteAnalytics, markerId)
    ELSE firebase_getAnalyticsSummary(firestoreAnalytics, markerId)

getAllAnalyticsSummaries ==
    IF adapter = "sqlite"
    THEN sqlite_getAllAnalyticsSummaries(sqliteAnalytics)
    ELSE firebase_getAllAnalyticsSummaries(firestoreAnalytics)

StoredEvents ==
    IF adapter = "sqlite" THEN Len(sqliteAnalytics) ELSE Len(firestoreAnalytics)

\* ------------------------------------------------------------------------
\* Analytics routes
\* ------------------------------------------------------------------------
\* The validation chain of POST /api/analytics.
eventValidators(e) ==
    /\ markerIdValid(e.markerId)
    /\ e.eventType \in EventTypes
    /\ e.duration = NoDuration \/ e.duration >= 0     \* optional().isFloat({min: 0})

\* POST /api/analytics (public)
PostAnalyticsRoute(event) ==
    IF ~eventValidators(event)
    THEN /\ resp' = Response("INGEST", event.markerId, 400, <<>>, FALSE)
         /\ UNCHANGED <<extraVars, adapter, now, contentVars, analyticsVars>>
    ELSE /\ StoredEvents < MaxEvents
         /\ recordAnalyticsEvent([event EXCEPT !.markerId = Trim(@)])
         /\ ingested' =
                Append(ingested,
                       [event EXCEPT !.markerId = Trim(@),
                                     !.timestamp = IF @ # NoTime THEN @ ELSE now])
         /\ resp' = Response("INGEST", event.markerId, 200,
                             <<StoredEvents + 1>>, FALSE)
         /\ UNCHANGED <<extraVars, adapter, now, contentVars>>

\* GET /api/analytics/:markerId/summary (admin)
SummaryRoute(pathId, token) ==
    /\ resp' =
         IF authenticateToken(token) # 0
         THEN Response("SUMMARY", pathId, authenticateToken(token), <<>>, FALSE)
         ELSE Response("SUMMARY", pathId, 200,
                       <<getAnalyticsSummary(Trim(pathId))>>, FALSE)
    /\ UNCHANGED <<extraVars, adapter, now, contentVars, analyticsVars>>

\* GET /api/analytics (admin)
AllSummariesRoute(token) ==
    /\ IF authenticateToken(token) # 0
       THEN resp' = Response("SUMMARIES", "", authenticateToken(token),
                             <<>>, FALSE)
       ELSE \E result \in getAllAnalyticsSummaries :
                resp' = Response("SUMMARIES", "", 200, result, FALSE)
    /\ UNCHANGED <<extraVars, adapter, now, contentVars, analyticsVars>>

AnalyticsNext ==
    \/ \E event \in EventInputs : PostAnalyticsRoute(event)
    \/ \E pathId \in MarkerIds, token \in {"valid", "none"} :
           SummaryRoute(pathId, token)
    \/ \E token \in {"valid", "none"} : AllSummariesRoute(token)
    \/ Tick

\* A record of the seed script's SEED_DATA.content, and the stores after
\* the script's setContent call for it.
SeedMarkerId == "m1"
SeedBody ==
    [EmptyBody EXCEPT !.type = "news", !.title = "T", !.summary = "S",
                      !.imageUrl = "https://a.example/x", !.style = Style1]

\* The process starts on a seeded database: one marker has content, the
\* other has none.
AnalyticsInit ==
    /\ adapter \in {"sqlite", "firebase"}
    /\ now = 0
    /\ sqliteContent =
           IF adapter = "sqlite"
           THEN sqlite_setContent({}, SeedMarkerId, SeedBody) ELSE {}
    /\ firestoreContent =
           IF adapter = "firebase"
           THEN firebase_setContent({}, SeedMarkerId, SeedBody) ELSE {}
    /\ lastInput = [m \in MarkerIds |->
                      IF m = SeedMarkerId THEN <<SeedBody>> ELSE <<>>]
    /\ sqliteAnalytics = <<>>
    /\ firestoreAnalytics = <<>>
    /\ resp = Response("none", "", 0, <<>>, FALSE)
    /\ ingested = <<>>
    /\ AuthIdle
    /\ PerplexityIdle
    /\ ClientIdle
    /\ LifecycleIdle

AnalyticsSpec == AnalyticsInit /\ [][AnalyticsNext]_vars

\* ------------------------------------------------------------------------
\* Properties of the analytics summaries
\* ------------------------------------------------------------------------
\* The accepted events of a marker, by type.
Ingested(markerId, eventType) ==
    {i \in DOMAIN ingested : /\ ingested[i].markerId = markerId
                             /\ ingested[i].eventType = eventType}

OneSummary == resp.route = "SUMMARY" /\ resp.status = 200

\* C7: after N accepted scan events and M accepted click events for a
\* marker, its summary has totalScans = N and totalClicks = M.
C7_ScanAndClickCounts ==
    OneSummary =>
        /\ resp.data[1].totalScans =
               Cardinality(Ingested(resp.markerId, "scan"))
        /\ resp.data[1].totalClicks =
               Cardinality(Ingested(resp.markerId, "click"))

\* The mean duration of a marker's accepted viewDuration events that carry
\* a duration, as a rational.
MeanDuration(markerId) ==
    LET durs == {i \in Ingested(markerId, "viewDuration") :
                    ingested[i].duration # NoDuration}
    IN IF durs = {} THEN Zero
       ELSE <<SumOver([i \in DOMAIN ingested |-> ingested[i].duration], durs),
              Cardinality(durs)>>

\* C8: the summary's avgDuration is the arithmetic mean of the durations of
\* the marker's viewDuration events, 0 if there are none.
C8_AvgDuration ==
    OneSummary => RatEq(resp.data[1].avgDuration, MeanDuration(resp.markerId))

\* C9: the summary of a marker with no recorded event is all zero with
\* lastScan null, and the request succeeds.
C9_ZeroEventsSummary ==
    [][ \A p \in MarkerIds :
          ( /\ SummaryRoute(p, "valid")
            /\ \A i \in DOMAIN ingested : ingested[i].markerId # p )
          => /\ resp'.status = 200
             /\ resp'.data = <<ZeroSummary(p)>> ]_vars

\* C9 witness: a summary served for a marker that has content but no event,
\* while the other marker, without content, has scan events.
C9_Witness ==
    /\ OneSummary
    /\ \A i \in DOMAIN ingested : ingested[i].markerId # resp.markerId
    /\ \E i \in DOMAIN ingested : ingested[i].eventType = "scan"
    /\ RecordCount(resp.markerId) = 1

\* The latest timestamp among a marker's accepted scan events.
LastScan(markerId) ==
    IF Ingested(markerId, "scan") = {} THEN NoTime
    ELSE MaxOf({ingested[i].timestamp : i \in Ingested(markerId, "scan")})

\* C10: lastScan, in the summary of one marker and in the summaries of all
\* markers, is the maximum timestamp among the marker's scan events only,
\* null when it has none.
C10_LastScanOnlyScans ==
    /\ OneSummary => resp.data[1].lastScan = LastScan(resp.markerId)
    /\ (resp.route = "SUMMARIES" /\ resp.status = 200) =>
           \A i \in DOMAIN resp.data :
               resp.data[i].lastScan = LastScan(resp.data[i].markerId)

\* ------------------------------------------------------------------------
\* Authentication: POST /api/auth/login, GET /api/auth/verify
\* ------------------------------------------------------------------------
\* Mutant: a 401 counts as a successful request.
requestWasSuccessful_below500(status) == status < 500

\* express-rate-limit's default requestWasSuccessful, used by
\* skipSuccessfulRequests: true.
requestWasSuccessful(status) == status < 400

\* max: 5
authLimiterMax == 5

\* The hit count after the response has been sent: with
\* skipSuccessfulRequests a request is counted when it arrives and
\* un-counted when its response finishes successfully.
authLimiter_onFinish(h, status) ==
    IF requestWasSuccessful(status) /\ h > 0 THEN h - 1 ELSE h

\* bcrypt.compare(password, process.env.ADMIN_PASSWORD_HASH)
bcrypt_compare(password) == password = AdminPassword

\* expiresIn: '24h', in clock ticks.
TokenLifetime == 1

\* The signing key, process.env.ADMIN_JWT_SECRET, and a key an outsider
\* signs with.
Secret == "ADMIN_JWT_SECRET"
OtherKey == "guess"

\* jwt.sign({username, role, iat}, secret, {expiresIn}) at time t.
jwt_sign(t) ==
    [form |-> "jwt", key |-> Secret, iat |-> t, exp |-> t + TokenLifetime]

\* What an Authorization header can carry: nothing, a string that is not a
\* JWT, a JWT signed with another key, or a token the server has issued.
NoBearer == [form |-> "absent", key |-> "", iat |-> 0, exp |-> 0]
MalformedBearer == [form |-> "malformed", key |-> "", iat |-> 0, exp |-> 0]
Bearers ==
    {NoBearer, MalformedBearer}
      \cup { [form |-> "jwt", key |-> OtherKey, iat |-> t,
              exp |-> t + TokenLifetime] : t \in Times }
      \cup issued

\* Mutant: the exp claim is not checked.
jwt_verify_ignoreExpiration(token, t) ==
    IF token.form # "jwt" \/ token.key # Secret THEN "JsonWebTokenError"
    ELSE "ok"

\* jwt.verify(token, secret) at time t: the signature is checked first,
\* then the exp claim.
jwt_verify(token, t) ==
    IF token.form # "jwt" \/ token.key # Secret THEN "JsonWebTokenError"
    ELSE IF t >= token.exp THEN "TokenExpiredError"
    ELSE "ok"

\* How authenticateToken sees a bearer at time t.
TokenClass(bearer, t) ==
    IF bearer.form = "absent" THEN "none"
    ELSE CASE jwt_verify(bearer, t) = "TokenExpiredError" -> "expired"
           [] jwt_verify(bearer, t) = "JsonWebTokenError" -> "invalid"
           [] OTHER -> "valid"

Pending ==
    inflight["ip1"][AdminPassword] + inflight["ip1"]["wrong"]
      + inflight["ip2"][AdminPassword] + inflight["ip2"]["wrong"]

\* POST /api/auth/login up to the await of bcrypt.compare: authLimiter
\* (keyed by the source address), the validation chain, then the handler.
LoginArrive(source, password) ==
    /\ hits[source] < MaxHits
    /\ IF hits[source] + 1 > authLimiterMax
       THEN \* the limiter answers; the handler is not run
            /\ resp' = Response("LOGIN", source, 429, <<>>, FALSE)
            /\ hits' = [hits EXCEPT
                          ![source] = authLimiter_onFinish(@ + 1, 429)]
            /\ failed' = [failed EXCEPT ![source] = @ + 1]
            /\ UNCHANGED <<inflight, issued>>
       ELSE IF password = ""
       THEN \* body('password').notEmpty()
            /\ resp' = Response("LOGIN", source, 400, <<>>, FALSE)
            /\ hits' = [hits EXCEPT
                          ![source] = authLimiter_onFinish(@ + 1, 400)]
            /\ failed' = [failed EXCEPT ![source] = @ + 1]
            /\ UNCHANGED <<inflight, issued>>
       ELSE /\ Pending < MaxInflight
            /\ inflight' = [inflight EXCEPT ![source][password] = @ + 1]
            /\ hits' = [hits EXCEPT ![source] = @ + 1]
            /\ UNCHANGED <<resp, failed, issued>>
    /\ UNCHANGED <<perplexityVars, clientVars, lifecycleVars,
                   adapter, now, contentVars, analyticsVars>>

\* The rest of the login handler, once bcrypt.compare has resolved, for one
\* of the source's pending requests that carry this password.
LoginComplete(source, password) ==
    /\ password # ""
    /\ inflight[source][password] > 0
    /\ inflight' = [inflight EXCEPT ![source][password] = @ - 1]
    /\ IF ~bcrypt_compare(password)
       THEN /\ resp' = Response("LOGIN", source, 401, <<>>, FALSE)
            /\ hits' = [hits EXCEPT
                          ![source] = authLimiter_onFinish(@, 401)]
            /\ failed' = [failed EXCEPT ![source] = @ + 1]
            /\ UNCHANGED issued
       ELSE /\ issued' = issued \cup {jwt_sign(now)}
            /\ resp' = Response("LOGIN", source, 200, <<jwt_sign(now)>>,
                                FALSE)
            /\ hits' = [hits EXCEPT
                          ![source] = authLimiter_onFinish(@, 200)]
            /\ UNCHANGED failed
    /\ UNCHANGED <<perplexityVars, clientVars, lifecycleVars,
                   adapter, now, contentVars, analyticsVars>>

\* The limiter's window (windowMs: 15 minutes) elapses and the store's
\* counts are reset; taken between requests.
AuthWindowReset ==
    /\ Pending = 0
    /\ hits' = [s \in Sources |-> 0]
    /\ failed' = [s \in Sources |-> 0]
    /\ UNCHANGED <<perplexityVars, clientVars, lifecycleVars,
                   adapter, now, contentVars, analyticsVars,
                   resp, issued, inflight>>

\* GET /api/auth/verify
VerifyRoute(bearer) ==
    /\ resp' =
         IF bearer.form = "absent"
         THEN Response("VERIFY", "", 401, <<>>, FALSE)
         ELSE IF jwt_verify(bearer, now) = "ok"
         THEN Response("VERIFY", "", 200, <<>>, FALSE)
         ELSE Response("VERIFY", "", 401, <<>>, FALSE)
    /\ UNCHANGED <<extraVars, adapter, now, contentVars, analyticsVars>>

\* The auth routes, and a protected route called with what a client holds,
\* as time passes.
AuthNext ==
    \/ \E password \in Passwords : LoginArrive("ip1", password)
    \/ \E password \in Passwords : LoginComplete("ip1", password)
    \/ AuthWindowReset
    \/ \E bearer \in Bearers : VerifyRoute(bearer)
    \/ \E bearer \in Bearers : SummaryRoute("m1", TokenClass(bearer, now))
    \/ Tick

\* The login route under requests from several sources, within the
\* lifetime of a token.
LimiterNext ==
    \/ \E source \in Sources, password \in Passwords :
           LoginArrive(source, password)
    \/ \E source \in Sources, password \in Passwords :
           LoginComplete(source, password)
    \/ AuthWindowReset

\* The default deployment: DATABASE_TYPE unset.
AuthInit ==
    /\ Init
    /\ adapter = "sqlite"

AuthSpec == AuthInit /\ [][AuthNext]_vars

LimiterSpec == AuthInit /\ [][LimiterNext]_vars

\* ------------------------------------------------------------------------
\* Properties of authentication
\* ------------------------------------------------------------------------
\* An issued token that has not reached its expiry.
Live(bearer) == bearer \in issued /\ now < bearer.exp

\* C11: a login with the matching password returns a token; verify and the
\* protected routes accept a bearer exactly when it is a token issued by a
\* successful login that has not expired; a login with a non-matching
\* password is answered 401 and issues no token.
C11_LoginIssuesAcceptedTokens ==
    [][ /\ \A source \in Sources : \A password \in Passwords \ {""} :
               LoginComplete(source, password) =>
                   IF password = AdminPassword
                   THEN /\ resp'.status = 200
                        /\ resp'.data[1] \in issued'
                        /\ now < resp'.data[1].exp
                   ELSE /\ resp'.status = 401
                        /\ resp'.data = <<>>
                        /\ issued' = issued
        /\ issued' # issued => (resp'.route = "LOGIN" /\ resp'.status = 200)
        /\ \A bearer \in Bearers :
               /\ VerifyRoute(bearer) => (resp'.status = 200 <=> Live(bearer))
               /\ SummaryRoute("m1", TokenClass(bearer, now)) =>
                      (resp'.status = 200 <=> Live(bearer)) ]_vars

\* C11 witness: verify accepts a token while an earlier token has expired
\* and a login with another password has been refused.
C11_Witness ==
    /\ resp.route = "VERIFY" /\ resp.status = 200
    /\ \E t \in issued : now >= t.exp
    /\ \E s \in Sources : failed[s] > 0

C13_SuccessesNotCounted ==
    [][ \A source \in Sources : \A password \in Passwords :
          (failed[source] < authLimiterMax /\ LoginArrive(source, password))
          => (resp'.status # 429 \/ inflight' # inflight) ]_vars

\* C17: a request to a protected route that carries no token, a malformed
\* token, a token with an invalid signature or an expired token is answered
\* 401 and the route's handler is not run.
C17_Rejected401 ==
    [][ \A bearer \in Bearers :
          (~Live(bearer) /\ SummaryRoute("m1", TokenClass(bearer, now))) =>
              (resp'.status = 401 /\ resp'.data = <<>>) ]_vars

\* ------------------------------------------------------------------------
\* Batch ingest: POST /api/analytics/batch
\* ------------------------------------------------------------------------
\* body('events').isArray({ min: 1, max: 100 })
MinBatchSize == 1
MaxBatchSize == 100

\* k copies of one event.
Repeat(event, k) == [i \in 1..k |-> event]

BatchEvent(markerId, eventType, duration) ==
    [markerId |-> markerId, eventType |-> eventType, timestamp |-> NoTime,
     duration |-> duration]

\* The events arrays of the requests: arrays of one event at the sizes
\* around the two limits, and short mixed arrays, some with an element the
\* chain rejects and one with a negative duration.
BatchInputs ==
    { Repeat(BatchEvent("m1", "scan", NoDuration), k) :
        k \in {0, 1, 2, MaxBatchSize, MaxBatchSize + 1} }
    \cup
    { <<BatchEvent("m1", "click", NoDuration)>>,
      <<BatchEvent("m2", "scan", NoDuration),
        BatchEvent("m1", "viewDuration", MaxDuration)>>,
      <<BatchEvent("m1", "scan", NoDuration),
        BatchEvent("m1", "hover", NoDuration)>>,
      <<BatchEvent(BlankMarkerId, "scan", NoDuration),
        BatchEvent("m1", "scan", NoDuration)>>,
      <<BatchEvent("m1", "viewDuration", NegativeDuration)>> }

\* Mutant: the array's upper limit is not checked.
batchValidators_noMax(events) ==
    /\ Len(events) >= MinBatchSize
    /\ \A i \in DOMAIN events :
           /\ markerIdValid(events[i].markerId)
           /\ events[i].eventType \in EventTypes

\* The validation chain of POST /api/analytics/batch.
batchValidators(events) ==
    /\ Len(events) >= MinBatchSize /\ Len(events) <= MaxBatchSize
    /\ \A i \in DOMAIN events :
           /\ markerIdValid(events[i].markerId)
           /\ events[i].eventType \in EventTypes

\* The table after Promise.all(events.map(recordAnalyticsEvent)), the
\* INSERTs taken in the order they are issued: the i-th event gets the
\* i-th next row id.
sqlite_recordAll(rows, events, t) ==
    rows \o [i \in DOMAIN events |->
                sqlite_analyticsRow(Len(rows) + i, events[i], t)]

firebase_recordAll(docs, events, t) ==
    docs \o [i \in DOMAIN events |->
                firebase_analyticsDoc(Len(docs) + i, events[i], t)]

\* POST /api/analytics/batch (public)
PostBatchRoute(events) ==
    IF ~batchValidators(events)
    THEN /\ resp' = Response("BATCH", "", 400, <<>>, FALSE)
         /\ UNCHANGED <<extraVars, adapter, now, contentVars, analyticsVars>>
    ELSE LET trimmed == [i \in DOMAIN events |->
                            [events[i] EXCEPT !.markerId = Trim(@)]]
         IN /\ StoredEvents < MaxEvents
            /\ IF adapter = "sqlite"
               THEN /\ sqliteAnalytics' =
                           sqlite_recordAll(sqliteAnalytics, trimmed, now)
                    /\ UNCHANGED firestoreAnalytics
               ELSE /\ firestoreAnalytics' =
                           firebase_recordAll(firestoreAnalytics, trimmed, now)
                    /\ UNCHANGED sqliteAnalytics
            /\ ingested' =
                   ingested \o [i \in DOMAIN events |->
                                   [trimmed[i] EXCEPT !.timestamp = now]]
            /\ resp' = Response("BATCH", "", 200, <<Len(events)>>, FALSE)
            /\ UNCHANGED <<extraVars, adapter, now, contentVars>>

BatchNext ==
    \/ \E events \in BatchInputs : PostBatchRoute(events)
    \/ \E pathId \in MarkerIds : SummaryRoute(pathId, "valid")
    \/ Tick

BatchSpec == AnalyticsInit /\ [][BatchNext]_vars

\* The marker and type of the i-th analytics row of the active adapter's
\* store.
StoredRow(rows, docs, i) ==
    IF adapter = "sqlite"
    THEN [markerId |-> rows[i].marker_id, eventType |-> rows[i].event_type]
    ELSE [markerId |-> docs[i].markerId, eventType |-> docs[i].eventType]

\* C14: a batch of 0 or of more than 100 events is answered 400 and stores
\* no row; a batch of k valid events, 1 <= k <= 100, that is answered 200
\* adds exactly k rows, the i-th for the i-th element.
C14_BatchBounds ==
    [][ \A events \in BatchInputs :
          PostBatchRoute(events) =>
              IF Len(events) = 0 \/ Len(events) > 100
              THEN resp'.status = 400 /\ UNCHANGED analyticsVars
              ELSE ( /\ \A i \in DOMAIN events : eventValidators(events[i])
                     /\ resp'.status = 200 )
                   => /\ StoredEvents' = StoredEvents + Len(events)
                      /\ \A i \in DOMAIN events :
                             StoredRow(sqliteAnalytics', firestoreAnalytics',
                                       StoredEvents + i) =
                                 [markerId |-> events[i].markerId,
                                  eventType |-> events[i].eventType] ]_vars

\* C14 witness: a batch refused after a batch of 100 was stored.
C14_Witness ==
    /\ resp.route = "BATCH" /\ resp.status = 400
    /\ StoredEvents >= 100

\* ------------------------------------------------------------------------
\* Perplexity service (services/perplexity.js) and its admin route
\* ------------------------------------------------------------------------
\* The url arguments: two article URLs, a string that is not a URL, and an
\* empty string.
ArticleUrls == ValidUrls \cup {"not a url", ""}

\* What the call to the Perplexity API can come to: a 200 whose message is
\* the JSON asked for, a 200 whose message is JSON with a summary and no
\* headline, a 200 whose message is plain text, a 200 whose message has no
\* line that is not blank, a 200 without choices, the provider's 429, 401
\* and 500, a timeout (ECONNABORTED), and a connection that cannot be made.
ApiOutcomes ==
    {"json", "json no headline", "text", "blank text", "no choices", "429",
     "401", "500", "timeout", "unreachable"}

\* extractDomain: the hostname without "www.", 'Unknown Source' when
\* new URL(url) throws.
extractDomain(url) ==
    CASE url = "https://a.example/x" -> "a.example"
      [] url = "https://www.b.example/y" -> "b.example"
      [] OTHER -> "Unknown Source"

\* A value returned by summarizeArticle, and an Error thrown by it.
Returned(url, outcome, headline, summary, mock) ==
    [called |-> TRUE, url |-> url, outcome |-> outcome, threw |-> FALSE,
     message |-> "", headline |-> headline, summary |-> summary,
     source |-> url, mock |-> mock]

Threw(url, outcome, message) ==
    [called |-> TRUE, url |-> url, outcome |-> outcome, threw |-> TRUE,
     message |-> message, headline |-> "", summary |-> "", source |-> "",
     mock |-> FALSE]

\* generateMockSummary(url), for a call whose API outcome was `outcome`.
generateMockSummary(url, outcome) ==
    Returned(url, outcome,
             CASE extractDomain(url) = "a.example" ->
                      "Breaking News from a.example"
               [] extractDomain(url) = "b.example" ->
                      "Breaking News from b.example"
               [] OTHER -> "Breaking News from Unknown Source",
             "This is a mock summary generated for demonstration purposes.",
             TRUE)

\* Mutant: the API is called although no key is configured.
summarizeArticle_keyNotChecked(url, e, outcome) ==
    IF e.PERPLEXITY_MOCK_MODE THEN generateMockSummary(url, "")
    ELSE LET answer == IF e.PERPLEXITY_API_KEY THEN outcome ELSE "401"
         IN CASE answer = "json" -> Returned(url, outcome, "H", "S", FALSE)
              [] answer = "json no headline" ->
                     Returned(url, outcome, "Article Summary", "S", FALSE)
              [] answer = "text" -> Returned(url, outcome, "L1", "L2", FALSE)
              [] answer = "blank text" ->
                     Returned(url, outcome, "Article Summary", "", FALSE)
              [] answer = "429" ->
                     Threw(url, outcome,
                           "Rate limit exceeded. Please try again later.")
              [] answer = "401" ->
                     Threw(url, outcome, "Invalid Perplexity API key")
              [] answer = "timeout" ->
                     Threw(url, outcome, "Request timeout.")
              [] OTHER -> generateMockSummary(url, outcome)

\* summarizeArticle(url) under the settings e, when the API call, if one is
\* made, comes to `outcome`.
summarizeArticle(url, e, outcome) ==
    IF e.PERPLEXITY_MOCK_MODE THEN generateMockSummary(url, "")
    ELSE IF ~e.PERPLEXITY_API_KEY THEN generateMockSummary(url, "")
    ELSE CASE outcome = "json" -> Returned(url, outcome, "H", "S", FALSE)
           \* parsed.headline || 'Article Summary'
           [] outcome = "json no headline" ->
                  Returned(url, outcome, "Article Summary", "S", FALSE)
           [] outcome = "text" -> Returned(url, outcome, "L1", "L2", FALSE)
           \* lines[0]?.substring(0, 60) || 'Article Summary'
           [] outcome = "blank text" ->
                  Returned(url, outcome, "Article Summary", "", FALSE)
           \* the catch block: three kinds of error are thrown on
           [] outcome = "429" ->
                  Threw(url, outcome,
                        "Rate limit exceeded. Please try again later.")
           [] outcome = "401" ->
                  Threw(url, outcome, "Invalid Perplexity API key")
           [] outcome = "timeout" ->
                  Threw(url, outcome, "Request timeout.")
           \* every other error falls back to the mock
           [] OTHER -> generateMockSummary(url, outcome)

\* A call of the service's summarizeArticle.
SummarizeArticleCall(url, outcome) ==
    /\ summarized' = summarizeArticle(url, env, outcome)
    /\ UNCHANGED <<authVars, clientVars, lifecycleVars, env,
                   adapter, now, contentVars, analyticsVars,
                   resp>>

\* The content summarize-and-save hands to setContent.
SummaryContent(url, summary) ==
    [EmptyBody EXCEPT !.type = "news", !.title = summary.headline,
                      !.summary = summary.summary, !.url = url,
                      !.style = <<"#1a1a1a", "#ffffff", "#00ff88">>]

\* setContent with an explicit imageUrl: null on the Firestore adapter: the
\* merge overwrites the key with null.
firebase_setContentNullImage(docs, markerId, content) ==
    { IF d.id = markerId THEN [d EXCEPT !.imageUrl = Absent] ELSE d :
        d \in firebase_setContent(docs, markerId, content) }

\* POST /api/perplexity/summarize-and-save (admin)
SummarizeAndSaveRoute(token, markerId, url, outcome) ==
    LET existed == RecordCount(Trim(markerId)) > 0
        summary == summarizeArticle(url, env, outcome)
    IN IF authenticateToken(token) # 0
       THEN /\ resp' = Response("SAVE", markerId, authenticateToken(token),
                                <<>>, existed)
            /\ UNCHANGED <<extraVars, adapter, now, contentVars,
                           analyticsVars>>
       ELSE IF ~markerIdValid(markerId) \/ url \notin ValidUrls
       THEN /\ resp' = Response("SAVE", markerId, 400, <<>>, existed)
            /\ UNCHANGED <<extraVars, adapter, now, contentVars,
                           analyticsVars>>
       ELSE IF ~env.ENABLE_PERPLEXITY
       THEN /\ resp' = Response("SAVE", markerId, 503, <<>>, existed)
            /\ UNCHANGED <<extraVars, adapter, now, contentVars,
                           analyticsVars>>
       ELSE IF summary.threw
       THEN \* an Error without statusCode: the error handler answers 500
            /\ summarized' = summary
            /\ resp' = Response("SAVE", markerId, 500, <<>>, existed)
            /\ UNCHANGED <<authVars, clientVars, lifecycleVars, env,
                   adapter, now, contentVars,
                           analyticsVars>>
       ELSE /\ summarized' = summary
            /\ IF adapter = "sqlite"
               THEN /\ sqliteContent' =
                           sqlite_setContent(sqliteContent, Trim(markerId),
                                             SummaryContent(url, summary))
                    /\ UNCHANGED firestoreContent
               ELSE /\ firestoreContent' =
                           firebase_setContentNullImage(
                               firestoreContent, Trim(markerId),
                               SummaryContent(url, summary))
                    /\ UNCHANGED sqliteContent
            /\ lastInput' = [lastInput EXCEPT ![Trim(markerId)] =
                                <<SummaryContent(url, summary)>>]
            /\ resp' = Response("SAVE", markerId, 200,
                                <<SavedContent(Trim(markerId),
                                               SummaryContent(url, summary))>>,
                                existed)
            /\ UNCHANGED <<authVars, clientVars, lifecycleVars, env,
                   adapter, now, analyticsVars>>

PerplexityNext ==
    \/ \E url \in ArticleUrls, outcome \in ApiOutcomes :
           SummarizeArticleCall(url, outcome)
    \/ \E markerId \in PathMarkerIds, url \in ArticleUrls,
          outcome \in {"json", "429", "unreachable"} :
           SummarizeAndSaveRoute("valid", markerId, url, outcome)
    \/ \E token \in Tokens \ {"valid"} :
           \* the body is not read when authentication fails
           SummarizeAndSaveRoute(token, "m1", "https://a.example/x", "json")
    \/ \E pathId \in MarkerIds : GetContentRoute(pathId)

\* The process starts under any setting of the three variables.
PerplexityInit ==
    /\ adapter \in {"sqlite", "firebase"}
    /\ now = 0
    /\ sqliteContent = {}
    /\ firestoreContent = {}
    /\ sqliteAnalytics = <<>>
    /\ firestoreAnalytics = <<>>
    /\ resp = Response("none", "", 0, <<>>, FALSE)
    /\ lastInput = [m \in MarkerIds |-> <<>>]
    /\ ingested = <<>>
    /\ AuthIdle
    /\ env \in [PERPLEXITY_MOCK_MODE : BOOLEAN, PERPLEXITY_API_KEY : BOOLEAN,
                ENABLE_PERPLEXITY : BOOLEAN, NODE_ENV : {Absent}]
    /\ summarized = NoCall
    /\ ClientIdle
    /\ LifecycleIdle

PerplexitySpec == PerplexityInit /\ [][PerplexityNext]_vars

\* The API was not to be called: mock mode is on or no key is configured.
MockConfigured == env.PERPLEXITY_MOCK_MODE \/ ~env.PERPLEXITY_API_KEY

\* C15: with no API key configured, or in mock mode, summarizeArticle(url)
\* returns a result flagged mock: true and does not throw, for every url.
C15_MockWithoutKey ==
    (summarized.called /\ MockConfigured) =>
        (~summarized.threw /\ summarized.mock)

\* C15 witness: a mock summary returned for a string that is not a URL.
C15_Witness ==
    /\ summarized.called /\ MockConfigured
    /\ summarized.url = "not a url"
    /\ summarized.headline = "Breaking News from Unknown Source"

\* The outcomes of the API call that are failures.
ApiFailures ==
    ApiOutcomes \ {"json", "json no headline", "text", "blank text"}

\* C16: with an API key configured, every failure of the API call makes
\* summarizeArticle(url) return the mock result; none is thrown on to the
\* caller.
C16_FailuresDegradeToMock ==
    (summarized.called /\ ~MockConfigured
                       /\ summarized.outcome \in ApiFailures) =>
        (~summarized.threw /\ summarized.mock)

\* ------------------------------------------------------------------------
\* Every route that reads or could write the content store
\* ------------------------------------------------------------------------
\* PUT /api/content/:markerId (admin). No validation chain runs, so the
\* path parameter is used as it arrives. When the record exists the handler
\* hands the request back to router.handle with its method still PUT: it is
\* matched by this route again, the POST handler is not reached, nothing is
\* written and no response is sent (status 0).
PutContentRoute(pathId, token) ==
    LET existed == getContent(pathId) # <<>>
    IN /\ resp' =
            IF authenticateToken(token) # 0
            THEN Response("PUT", pathId, authenticateToken(token), <<>>,
                          existed)
            ELSE IF ~existed
            THEN Response("PUT", pathId, 404, <<>>, existed)
            ELSE Response("PUT", pathId, 0, <<>>, existed)
       /\ UNCHANGED <<extraVars, adapter, now, contentVars, analyticsVars>>

\* Upsert bodies: one the chain accepts and one it rejects.
WriteBodies ==
    { [EmptyBody EXCEPT !.type = "video", !.videoUrl = "https://a.example/x",
                        !.style = Style1, !.expiresAt = 1],
      [EmptyBody EXCEPT !.type = "audio", !.title = "T"] }

\* Requests to all routes, with and without a valid token.
WriteNext ==
    \/ \E pathId \in PathMarkerIds : GetContentRoute(pathId)
    \/ \E pathId \in PathMarkerIds, token \in Tokens, body \in WriteBodies :
           PostContentRoute(pathId, token, body)
    \/ \E pathId \in PathMarkerIds, token \in Tokens :
           PutContentRoute(pathId, token)
    \/ \E pathId \in PathMarkerIds, token \in Tokens :
           DeleteContentRoute(pathId, token)
    \/ \E token \in Tokens, markerId \in PathMarkerIds,
          url \in {"https://www.b.example/y", "not a url"} :
           SummarizeAndSaveRoute(token, markerId, url, "json")
    \/ PostAnalyticsRoute(BatchEvent("m1", "scan", NoDuration))
    \/ PostBatchRoute(<<BatchEvent("m1", "scan", NoDuration)>>)

WriteSpec == AnalyticsInit /\ [][WriteNext]_vars

\* The stored Content records.
ContentStore == <<sqliteContent, firestoreContent>>

\* A request without a valid, unexpired admin token to one of the admin
\* routes.
UnauthenticatedRequest ==
    \E token \in Tokens \ {"valid"} : \E pathId \in PathMarkerIds :
        \/ \E body \in WriteBodies : PostContentRoute(pathId, token, body)
        \/ PutContentRoute(pathId, token)
        \/ DeleteContentRoute(pathId, token)
        \/ \E url \in ArticleUrls :
               SummarizeAndSaveRoute(token, pathId, url, "json")

\* A request to one of the public routes.
PublicRequest ==
    \/ \E pathId \in PathMarkerIds : GetContentRoute(pathId)
    \/ \E event \in EventInputs : PostAnalyticsRoute(event)
    \/ \E events \in BatchInputs : PostBatchRoute(events)

\* C18: a step that creates, replaces or deletes a stored Content record is
\* not the effect of a request without a valid, unexpired admin token, nor
\* of a request to a public route.
C18_WritesNeedValidToken ==
    [][ ContentStore' # ContentStore =>
            (~UnauthenticatedRequest /\ ~PublicRequest) ]_vars

\* C18 witness: a delete with an expired token refused while the marker's
\* record, written with a valid token, stays stored.
C18_Witness ==
    /\ resp.route = "DELETE" /\ resp.status = 401 /\ resp.existed
    /\ RecordCount(Trim(resp.markerId)) = 1
    /\ \E m \in MarkerIds : m # SeedMarkerId /\ RecordCount(m) = 1


\* ------------------------------------------------------------------------
\* The two adapters side by side
\* ------------------------------------------------------------------------
\* recordAnalyticsEvent called on both adapters with the same event at the
\* same instant, as a harness comparing the adapters would do.
RecordOnBoth(event) ==
    /\ Len(sqliteAnalytics) < MaxEvents
    /\ sqliteAnalytics' =
           sqlite_recordAnalyticsEvent(sqliteAnalytics, event, now)
    /\ firestoreAnalytics' =
           firebase_recordAnalyticsEvent(firestoreAnalytics, event, now)
    /\ ingested' =
           Append(ingested,
                  [event EXCEPT !.timestamp = IF @ # NoTime THEN @ ELSE now])
    /\ UNCHANGED <<extraVars, adapter, now, contentVars, resp>>

\* The events the routes hand to recordAnalyticsEvent.
RecordedEvents ==
    { [e EXCEPT !.markerId = Trim(@)] : e \in {x \in EventInputs : eventValidators(x)} }

EquivNext ==
    \/ \E event \in RecordedEvents : RecordOnBoth(event)
    \/ Tick

EquivInit == AnalyticsInit /\ adapter = "sqlite"

EquivSpec == EquivInit /\ [][EquivNext]_vars

\* Two summaries with the same four fields.
SameSummary(a, b) ==
    /\ a.markerId = b.markerId
    /\ a.totalScans = b.totalScans
    /\ a.totalClicks = b.totalClicks
    /\ RatEq(a.avgDuration, b.avgDuration)
    /\ a.lastScan = b.lastScan

\* C19: after the same sequence of recordAnalyticsEvent calls, the SQLite
\* and the Firestore adapter return the same totalScans, totalClicks,
\* avgDuration and lastScan from getAnalyticsSummary, for every marker, and
\* from getAllAnalyticsSummaries.
C19_AdaptersAgree ==
    /\ \A m \in MarkerIds :
           SameSummary(sqlite_getAnalyticsSummary(sqliteAnalytics, m),
                       firebase_getAnalyticsSummary(firestoreAnalytics, m))
    /\ \A qs \in sqlite_getAllAnalyticsSummaries(sqliteAnalytics) :
       \A qf \in firebase_getAllAnalyticsSummaries(firestoreAnalytics) :
           \A i \in DOMAIN qs : \E j \in DOMAIN qf : SameSummary(qs[i], qf[j])


\* ------------------------------------------------------------------------
\* The AR client: fetchContent and the ScanPage component
\* ------------------------------------------------------------------------
\* The marker ids a scanned QR code leads to. The second has bundled demo
\* content, the first has none.
ClientMarkerIds == {"m1", "m2"}

\* The bundled demo content, by marker id.
DEMO_CONTENT ==
    [m \in {"m2"} |->
        SavedContent(m, [EmptyBody EXCEPT !.type = "news",
                                          !.title = "Welcome to PortalAR!",
                                          !.summary = "S",
                                          !.imageUrl = "https://a.example/x",
                                          !.ctaText = "Learn More",
                                          !.ctaUrl = "https://www.b.example/y",
                                          !.style = Style1])]

\* What api.get receives: a response with its status, its data and the
\* message of its body, or no response at all (connection refused, DNS
\* failure, the 10 s timeout), or a failure while setting up the request.
Reply(kind, status, data, message) ==
    [kind |-> kind, status |-> status, data |-> data, message |-> message]

\* The answer of GET /api/content/:markerId to the client.
getContentReply(pathId) ==
    LET content == getContent(Trim(pathId))
    IN IF ~markerIdValid(pathId)
       THEN Reply("response", 400, <<>>, "Validation failed")
       ELSE IF content = <<>>
       THEN Reply("response", 404, <<>>, "Content not found for marker")
       ELSE IF isExpired(content[1], now)
       THEN Reply("response", 410, <<>>, "Content has expired")
       ELSE Reply("response", 200, content, "")

\* The replies a fetch can end with: the route's answer, a 500 of the error
\* handler, a 502 of a gateway with no JSON body, no response, no request.
Replies(pathId) ==
    { getContentReply(pathId),
      Reply("response", 500, <<>>, "An unexpected error occurred"),
      Reply("response", 502, <<>>, Absent),
      Reply("network", 0, <<>>, Absent),
      Reply("setup", 0, <<>>, Absent) }

\* What the returned promise settles with.
Resolved(data) == [ok |-> TRUE, data |-> <<data>>, message |-> ""]
Rejected(message) == [ok |-> FALSE, data |-> <<>>, message |-> message]

fetchContent(markerId, demoMode, reply) ==
    IF demoMode
    THEN IF markerId \in DOMAIN DEMO_CONTENT
         THEN Resolved(DEMO_CONTENT[markerId])
         ELSE Rejected("Demo content not found for marker")
    ELSE IF reply.kind = "response" /\ reply.status = 200
    THEN Resolved(reply.data[1])
    ELSE IF reply.kind = "response"
    THEN IF reply.status = 404
         THEN Rejected("Content not found for marker")
         ELSE IF reply.status = 410
         THEN Rejected("Content has expired")
         ELSE Rejected(IF reply.message # Absent THEN reply.message
                       ELSE "Failed to load content")
    ELSE IF reply.kind = "network"
    THEN IF markerId \in DOMAIN DEMO_CONTENT
         THEN Resolved(DEMO_CONTENT[markerId])
         ELSE Rejected("Network error: Unable to reach server")
    ELSE Rejected("Failed to load content")

\* How the fetch ended, for the history field: the status of the response,
\* or the kind of failure; "demo" when demo mode made no request.
FetchTag(demoMode, reply) ==
    IF demoMode THEN "demo"
    ELSE IF reply.kind = "response" THEN ToString(reply.status)
    ELSE reply.kind

\* What ScanPage renders.
View ==
    IF ~client.mounted THEN "none"
    ELSE IF client.loading THEN "loading"
    ELSE IF client.error # "" \/ ~client.supported THEN "fallback"
    ELSE "scene"

\* ScanPage is mounted for a marker. Both effects run in the first commit:
\* the support check, and the fetch effect, which still sees the initial
\* webARSupported = true and so starts loadContent, whose setLoading(true)
\* comes last.
ClientMount(markerId) ==
    /\ ~client.mounted
    /\ client' =
           [client EXCEPT !.mounted = TRUE, !.markerId = markerId,
                          !.loading = TRUE, !.content = <<>>,
                          !.error = IF client.supported THEN ""
                                    ELSE "Camera API not available",
                          !.fetched = "pending"]
    /\ UNCHANGED <<authVars, perplexityVars, lifecycleVars, adapter, now,
                   contentVars,
                   analyticsVars, resp>>

\* The event trackEvent hands to recordEvent: the caller's fields and the
\* timestamp new Date().toISOString().
TrackedEvent(markerId, eventType, duration) ==
    [markerId |-> markerId, eventType |-> eventType, timestamp |-> now,
     duration |-> duration]

\* The scan event trackEvent sends after a successful load.
ScanEvent(markerId) == TrackedEvent(markerId, "scan", NoDuration)

\* How api.post('/analytics') ends: the route serves the request, or the
\* rate limiter or a failing server answers, or no response arrives.
TrackOutcomes == {"served", "429", "500", "network"}

\* Whether the served request stores the event (the route's validation).
Stored(event, outcome) == outcome = "served" /\ eventValidators(event)

\* Mutant: the catch block throws the error on.
recordEvent_rethrow(demoMode, event, outcome) ==
    IF demoMode THEN [threw |-> FALSE, success |-> TRUE, posted |-> FALSE]
    ELSE IF Stored(event, outcome)
    THEN [threw |-> FALSE, success |-> TRUE, posted |-> TRUE]
    ELSE [threw |-> TRUE, success |-> FALSE, posted |-> FALSE]

\* recordEvent: what it returns, whether it throws, and whether the server
\* stored the event.
recordEvent(demoMode, event, outcome) ==
    IF demoMode THEN [threw |-> FALSE, success |-> TRUE, posted |-> FALSE]
    ELSE IF Stored(event, outcome)
    THEN [threw |-> FALSE, success |-> TRUE, posted |-> TRUE]
    ELSE [threw |-> FALSE, success |-> FALSE, posted |-> FALSE]

\* trackEvent: awaits recordEvent inside try / catch; the history record
\* of the call.
trackEvent(demoMode, event, outcome) ==
    LET r == recordEvent(demoMode, event, outcome)
    IN [eventType |-> event.eventType, outcome |-> outcome,
        recordThrew |-> r.threw, threw |-> FALSE, posted |-> r.posted,
        logged |-> IF r.threw THEN "Failed to track event"
                   ELSE "Event tracked"]

\* The server's side of a tracked event: stored by POST /api/analytics
\* when it was served, nothing otherwise.
ServerRecords(t, event) ==
    IF t.posted
    THEN /\ StoredEvents < MaxEvents
         /\ recordAnalyticsEvent(event)
         /\ ingested' = Append(ingested, event)
         /\ resp' = Response("INGEST", event.markerId, 200,
                             <<StoredEvents + 1>>, FALSE)
    ELSE UNCHANGED <<analyticsVars, resp>>

\* The promise of fetchContent settles and loadContent goes on: content
\* set and a scan tracked, or the error message set; loading ends either
\* way. trackEvent is not awaited: its result does not reach loadContent.
ClientFetchSettle(reply, outcome) ==
    LET r == fetchContent(client.markerId, client.DEMO_MODE, reply)
        t == trackEvent(client.DEMO_MODE, ScanEvent(client.markerId), outcome)
    IN /\ client.mounted
       /\ client.fetched = "pending"
       /\ client' =
              [client EXCEPT !.loading = FALSE,
                             !.content = IF r.ok THEN r.data ELSE @,
                             !.error = IF r.ok THEN @ ELSE r.message,
                             !.fetched = FetchTag(client.DEMO_MODE, reply),
                             !.tracked = IF r.ok THEN <<t>> ELSE @]
       /\ IF r.ok THEN ServerRecords(t, ScanEvent(client.markerId))
                  ELSE UNCHANGED <<analyticsVars, resp>>
       /\ UNCHANGED <<authVars, perplexityVars, lifecycleVars, adapter, now,
                   contentVars>>

\* handleMarkerFound: the listener is attached once content has loaded and
\* the scene is rendered.
handleMarkerFound ==
    /\ View = "scene" /\ client.content # <<>>
    /\ ~client.markerVisible
    /\ client' = [client EXCEPT !.markerVisible = TRUE,
                                !.scanStartTime = now]
    /\ UNCHANGED <<authVars, perplexityVars, lifecycleVars, adapter, now,
                   contentVars,
                   analyticsVars, resp>>

\* handleMarkerLost: the view duration, in whole units of time, is tracked.
handleMarkerLost(outcome) ==
    LET event == TrackedEvent(client.markerId, "viewDuration",
                              now - client.scanStartTime)
        t == trackEvent(client.DEMO_MODE, event, outcome)
    IN /\ View = "scene" /\ client.markerVisible
       /\ client' = [client EXCEPT !.markerVisible = FALSE,
                                   !.scanStartTime = -1,
                                   !.tracked = <<t>>]
       /\ ServerRecords(t, event)
       /\ UNCHANGED <<authVars, perplexityVars, lifecycleVars, adapter, now,
                   contentVars>>

\* handleContentClick: the overlay is shown while the marker is visible.
handleContentClick(outcome) ==
    LET event == TrackedEvent(client.markerId, "click", NoDuration)
        t == trackEvent(client.DEMO_MODE, event, outcome)
    IN /\ View = "scene" /\ client.markerVisible /\ client.content # <<>>
       /\ client' = [client EXCEPT !.tracked = <<t>>]
       /\ ServerRecords(t, event)
       /\ UNCHANGED <<authVars, perplexityVars, lifecycleVars, adapter, now,
                   contentVars>>

\* The body an admin publishes: it expires at time 1.
ExpiringBody ==
    [EmptyBody EXCEPT !.type = "video", !.videoUrl = "https://a.example/x",
                      !.style = Style1, !.expiresAt = 1]

\* A visitor opens a scan page while an admin publishes and deletes content
\* and time passes.
ClientNext ==
    \/ \E markerId \in ClientMarkerIds : ClientMount(markerId)
    \/ \E reply \in Replies(client.markerId),
          outcome \in {"served", "network"} :
           ClientFetchSettle(reply, outcome)
    \/ \E pathId \in ClientMarkerIds :
           PostContentRoute(pathId, "valid", ExpiringBody)
    \/ \E pathId \in ClientMarkerIds : DeleteContentRoute(pathId, "valid")
    \/ Tick

\* A seeded server; the client in either build, on either kind of device.
ClientInit ==
    /\ adapter \in {"sqlite", "firebase"}
    /\ now = 0
    /\ sqliteContent =
           IF adapter = "sqlite"
           THEN sqlite_setContent({}, SeedMarkerId, SeedBody) ELSE {}
    /\ firestoreContent =
           IF adapter = "firebase"
           THEN firebase_setContent({}, SeedMarkerId, SeedBody) ELSE {}
    /\ lastInput = [m \in MarkerIds |->
                      IF m = SeedMarkerId THEN <<SeedBody>> ELSE <<>>]
    /\ sqliteAnalytics = <<>>
    /\ firestoreAnalytics = <<>>
    /\ resp = Response("none", "", 0, <<>>, FALSE)
    /\ ingested = <<>>
    /\ AuthIdle
    /\ PerplexityIdle
    /\ \E demoMode \in BOOLEAN, supported \in BOOLEAN :
           client = Unmounted(demoMode, supported)
    /\ LifecycleIdle

ClientSpec == ClientInit /\ [][ClientNext]_vars

\* The ways a fetch fails: a 404, a 410 or a 5xx response, or no response.
FetchFailures == {"404", "410", "500", "502", "network"}

\* C20: once a fetch of a marker's content has failed (network error, 404,
\* 410, 5xx), a supporting client shows the bundled demo content of that
\* marker if there is one, and the troubleshooting view otherwise; it does
\* not stay on the loading view.
C20_DemoThenFallback ==
    (client.mounted /\ client.supported /\ client.fetched \in FetchFailures) =>
        IF client.markerId \in DOMAIN DEMO_CONTENT
        THEN /\ View = "scene"
             /\ client.content = <<DEMO_CONTENT[client.markerId]>>
        ELSE View = "fallback"


\* A visitor's session on the scan page: the content loads, the marker is
\* found and lost, the overlay is clicked, while time passes and the
\* analytics requests end in every way.
TrackNext ==
    \/ \E markerId \in ClientMarkerIds : ClientMount(markerId)
    \/ \E reply \in Replies(client.markerId), outcome \in TrackOutcomes :
           ClientFetchSettle(reply, outcome)
    \/ handleMarkerFound
    \/ \E outcome \in TrackOutcomes : handleMarkerLost(outcome)
    \/ \E outcome \in TrackOutcomes : handleContentClick(outcome)
    \/ Tick

TrackSpec == ClientInit /\ [][TrackNext]_vars

\* The last tracked event was not recorded by the server.
TrackFailed ==
    /\ client.tracked # <<>>
    /\ ~client.DEMO_MODE
    /\ ~client.tracked[1].posted

\* C21: once content has loaded, no outcome of recording an analytics
\* event sets the page's error state or clears the loaded content, and
\* neither recordEvent nor trackEvent throws to its caller.
C21_TrackingNeverBreaksPage ==
    [][ client'.tracked # <<>> =>
          /\ ~client'.tracked[1].recordThrew
          /\ ~client'.tracked[1].threw
          /\ client'.content # <<>>
          /\ client.content # <<>> => client'.content = client.content
          /\ client'.error = client.error ]_vars

\* C21 witness: a click on the overlay whose event the rate limiter
\* refused, the scene still shown with its content.
C21_Witness ==
    /\ TrackFailed
    /\ client.tracked[1].eventType = "click"
    /\ client.tracked[1].outcome = "429"
    /\ View = "scene" /\ client.content # <<>> /\ client.error = ""


\* ------------------------------------------------------------------------
\* Batch ingest against single ingest
\* ------------------------------------------------------------------------
\* C22: a batch with an element that single-event ingest would reject (an
\* eventType outside the list, a blank markerId, a negative duration) is
\* answered 400 and stores no event.
C22_BatchValidatesLikeSingle ==
    [][ \A events \in BatchInputs :
          ( /\ PostBatchRoute(events)
            /\ \E i \in DOMAIN events : ~eventValidators(events[i]) )
          => (resp'.status = 400 /\ UNCHANGED analyticsVars) ]_vars


\* ------------------------------------------------------------------------
\* The life of the process: initialize(), app.listen, close()
\* ------------------------------------------------------------------------
MaxCloses == 3

\* Everything but the process state and the last response.
lifecycleFrame ==
    <<authVars, perplexityVars, clientVars, adapter, now, contentVars,
      analyticsVars>>

\* Before initialize(): currentAdapter and db are undefined. schema tells
\* whether the database already holds the tables (a file of an earlier
\* run, an existing Firestore project).
NotStarted(schema) ==
    [currentAdapter |-> FALSE, init |-> "idle", handle |-> "none",
     schema |-> schema, listening |-> FALSE, exited |-> FALSE,
     closes |-> <<>>, early |-> FALSE, calls |-> [c \in Callers |-> NotCalled]]

\* The facade's initialize() up to its first await. The SQLite adapter
\* creates the handle, which opens in the background; the Firestore
\* adapter's initialize has no await, so it has completed or thrown when
\* the call returns.
initialize(st, ok) ==
    IF adapter = "sqlite"
    THEN [st EXCEPT !.currentAdapter = TRUE, !.init = "pending",
                    !.handle = "opening"]
    ELSE IF ok
    THEN [st EXCEPT !.currentAdapter = TRUE, !.init = "done",
                    !.handle = "open", !.schema = TRUE]
    ELSE [st EXCEPT !.currentAdapter = TRUE, !.init = "failed"]

\* The .catch of the startup script: process.exit(1).
ExitIfServing(st) ==
    IF st.listening THEN [st EXCEPT !.listening = FALSE, !.exited = TRUE]
    ELSE st

\* The server script runs: database.initialize() is called and, without
\* waiting for it, the routes are mounted and app.listen is called. A
\* Firestore failure exits the process before a request can be handled.
Startup(ok) ==
    /\ storage.init = "idle" /\ ~storage.exited
    /\ storage' =
           LET st == initialize(storage, ok)
           IN IF st.init = "failed" THEN [st EXCEPT !.exited = TRUE]
              ELSE [st EXCEPT !.listening = TRUE]
    /\ UNCHANGED <<lifecycleFrame, resp>>

\* A script uses the facade without a server (as the seed script does).
Initialize(ok) ==
    /\ storage.init = "idle" /\ ~storage.exited
    /\ storage' = initialize(storage, ok)
    /\ UNCHANGED <<lifecycleFrame, resp>>

\* The callback of new sqlite3.Database: the file is open and createTables
\* starts, or the promise is rejected.
OpenSettle(ok) ==
    /\ adapter = "sqlite" /\ storage.handle = "opening"
    /\ storage' =
           IF ok THEN [storage EXCEPT !.handle = "open"]
           ELSE ExitIfServing([storage EXCEPT !.handle = "failed",
                                              !.init = "failed"])
    /\ UNCHANGED <<lifecycleFrame, resp>>

\* The last statement of createTables has run, or one of them failed.
CreateTablesSettle(ok) ==
    /\ adapter = "sqlite" /\ storage.handle = "open"
    /\ storage.init = "pending"
    /\ storage' =
           IF ok THEN [storage EXCEPT !.schema = TRUE, !.init = "done"]
           ELSE ExitIfServing([storage EXCEPT !.init = "failed"])
    /\ UNCHANGED <<lifecycleFrame, resp>>

\* GET /api/content/:markerId arrives at the listening server and its
\* handler calls database.getContent. While the handle is opening sqlite3
\* queues the query; it is answered from the tables if they exist already
\* and fails otherwise.
HandleRequest(pathId) ==
    LET reply == getContentReply(pathId)
    IN /\ storage.listening /\ ~storage.exited
       /\ storage' = [storage EXCEPT !.early = @ \/ storage.init # "done"]
       /\ resp' =
              IF storage.schema
              THEN Response("GET", pathId, reply.status, reply.data, FALSE)
              ELSE Response("GET", pathId, 500, <<>>, FALSE)
       /\ UNCHANGED lifecycleFrame

\* The SQLite adapter's close(): db.close on an open handle closes it; on
\* a handle that is closed already sqlite3 passes SQLITE_MISUSE to the
\* callback and the promise is rejected. db keeps the handle.
sqlite_close(st) ==
    IF st.handle = "none"
    THEN [st EXCEPT !.closes = Append(@, "ok")]
    ELSE IF st.handle = "open"
    THEN [st EXCEPT !.handle = "closed", !.closes = Append(@, "ok")]
    ELSE [st EXCEPT !.closes = Append(@, "error")]

\* The Firestore adapter's close(): the app is deleted if there is one.
firebase_close(st) ==
    IF st.handle = "open"
    THEN [st EXCEPT !.handle = "none", !.closes = Append(@, "ok")]
    ELSE [st EXCEPT !.closes = Append(@, "ok")]

\* The facade's close().
close(st) ==
    IF ~st.currentAdapter THEN [st EXCEPT !.closes = Append(@, "ok")]
    ELSE IF adapter = "sqlite" THEN sqlite_close(st)
    ELSE firebase_close(st)

\* A script calls close(), before initialize() or after it has completed.
Close ==
    /\ ~storage.listening /\ ~storage.exited
    /\ storage.init \in {"idle", "done"}
    /\ Len(storage.closes) < MaxCloses
    /\ storage' = close(storage)
    /\ UNCHANGED <<lifecycleFrame, resp>>

\* SIGTERM: server.close, then database.close(), then process.exit.
SigTerm ==
    /\ storage.listening /\ ~storage.exited
    /\ storage.init = "done"
    /\ storage' = [close(storage) EXCEPT !.listening = FALSE,
                                         !.exited = TRUE]
    /\ UNCHANGED <<lifecycleFrame, resp>>

LifecycleNext ==
    \/ \E ok \in BOOLEAN : Startup(ok)
    \/ \E ok \in BOOLEAN : Initialize(ok)
    \/ \E ok \in BOOLEAN : OpenSettle(ok)
    \/ \E ok \in BOOLEAN : CreateTablesSettle(ok)
    \/ \E pathId \in PathMarkerIds : HandleRequest(pathId)
    \/ Close
    \/ SigTerm

\* The process has not started; the database is empty, with or without its
\* tables.
LifecycleInit ==
    /\ adapter \in {"sqlite", "firebase"}
    /\ now = 0
    /\ sqliteContent = {}
    /\ firestoreContent = {}
    /\ sqliteAnalytics = <<>>
    /\ firestoreAnalytics = <<>>
    /\ resp = Response("none", "", 0, <<>>, FALSE)
    /\ lastInput = [m \in MarkerIds |-> <<>>]
    /\ ingested = <<>>
    /\ AuthIdle
    /\ PerplexityIdle
    /\ ClientIdle
    /\ \E schema \in BOOLEAN : storage = NotStarted(schema)

LifecycleSpec == LifecycleInit /\ [][LifecycleNext]_vars

\* C23: every call of close(), before initialize() or after a successful
\* one, however many times in a row, succeeds.
C23_CloseIdempotent ==
    \A i \in DOMAIN storage.closes : storage.closes[i] = "ok"

\* C25: no request handler calls a storage operation before initialize()
\* has completed.
C25_ServeOnlyAfterInit == ~storage.early


\* ------------------------------------------------------------------------
\* Concurrent setContent calls
\* ------------------------------------------------------------------------
\* Inputs that each adapter reads back as written when stored alone.
ConcurrentBodies ==
    { [EmptyBody EXCEPT !.type = "news", !.title = "T"],
      [EmptyBody EXCEPT !.type = "3d", !.summary = "S",
                        !.modelUrl = "https://a.example/x"],
      [EmptyBody EXCEPT !.type = "video", !.videoUrl = "https://a.example/x",
                        !.style = Style1, !.expiresAt = 1] }

concurrentFrame ==
    <<authVars, perplexityVars, clientVars, adapter, now, analyticsVars,
      resp, lastInput>>

\* setContent is called: the SQLite adapter hands its statement to db.run,
\* the Firestore adapter starts docRef.get().
SetContentCall(c, markerId, content) ==
    /\ storage.calls[c].pc = "idle"
    /\ storage' = [storage EXCEPT !.calls[c] =
                       [pc |-> "called", markerId |-> markerId,
                        content |-> <<content>>]]
    /\ UNCHANGED <<concurrentFrame, sqliteContent, firestoreContent>>

\* SQLite runs the caller's INSERT ... ON CONFLICT statement.
SqliteRun(c) ==
    /\ adapter = "sqlite" /\ storage.calls[c].pc = "called"
    /\ sqliteContent' =
           sqlite_setContent(sqliteContent, storage.calls[c].markerId,
                             storage.calls[c].content[1])
    /\ storage' = [storage EXCEPT !.calls[c].pc = "done"]
    /\ UNCHANGED <<concurrentFrame, firestoreContent>>

\* docRef.get() resolves (it decides createdAt only).
FirebaseGet(c) ==
    /\ adapter = "firebase" /\ storage.calls[c].pc = "called"
    /\ storage' = [storage EXCEPT !.calls[c].pc = "read"]
    /\ UNCHANGED <<concurrentFrame, sqliteContent, firestoreContent>>

\* docRef.set(data, { merge: true }) is applied.
FirebaseSet(c) ==
    /\ adapter = "firebase" /\ storage.calls[c].pc = "read"
    /\ firestoreContent' =
           firebase_setContent(firestoreContent, storage.calls[c].markerId,
                               storage.calls[c].content[1])
    /\ storage' = [storage EXCEPT !.calls[c].pc = "done"]
    /\ UNCHANGED <<concurrentFrame, sqliteContent>>

ConcurrentNext ==
    \/ \E c \in Callers, markerId \in {"m1", "m2"},
          content \in ConcurrentBodies :
           SetContentCall(c, markerId, content)
    \/ \E c \in Callers : SqliteRun(c)
    \/ \E c \in Callers : FirebaseGet(c)
    \/ \E c \in Callers : FirebaseSet(c)

\* An empty store in service.
ConcurrentInit == Init

ConcurrentSpec == ConcurrentInit /\ [][ConcurrentNext]_vars

\* Both calls have completed, for the same marker.
BothCompleted ==
    /\ \A c \in Callers : storage.calls[c].pc = "done"
    /\ storage.calls[1].markerId = storage.calls[2].markerId

\* C24: once two concurrent setContent calls for one markerId, with inputs
\* A and B, have both completed, exactly one record is stored for the
\* marker and its content fields equal A or equal B.
C24_LastWriteWins ==
    BothCompleted =>
        LET m == storage.calls[1].markerId
        IN /\ RecordCount(m) = 1
           /\ getContent(m) # <<>>
           /\ ContentFields(getContent(m)[1]) \in
                  {ContentFields(storage.calls[c].content[1]) : c \in Callers}


\* ------------------------------------------------------------------------
\* The error handler
\* ------------------------------------------------------------------------
\* The errors that reach the handler: AppErrors (name "Error", a status
\* code, perhaps details), plain and named exceptions without a status
\* code (0), database errors with a code. The message, when there is one,
\* is internal text.
InternalMessage == "secretOrPrivateKey must have a value"
Errors ==
    [name : {"Error", "TypeError", "ValidationError", "JsonWebTokenError",
             "TokenExpiredError", "UnauthorizedError"},
     statusCode : {0, 400, 404, 500, 503},
     message : {"", InternalMessage},
     details : {<<>>, <<"detail">>},
     errors : {<<>>, <<"field">>},
     code : {Absent, "SQLITE_CONSTRAINT", "SQLITE_ERROR", "23505"}]

\* The values of NODE_ENV.
NodeEnvs == {Absent, "development", "production"}

GenericMessage == "An unexpected error occurred"

getErrorName(statusCode) ==
    CASE statusCode = 400 -> "Bad Request"
      [] statusCode = 401 -> "Unauthorized"
      [] statusCode = 403 -> "Forbidden"
      [] statusCode = 404 -> "Not Found"
      [] statusCode = 409 -> "Conflict"
      [] statusCode = 422 -> "Unprocessable Entity"
      [] statusCode = 429 -> "Too Many Requests"
      [] statusCode = 500 -> "Internal Server Error"
      [] statusCode = 502 -> "Bad Gateway"
      [] statusCode = 503 -> "Service Unavailable"
      [] OTHER -> "Error"

\* err.stack: it starts with the error's name and message.
StackOf(err) == <<err.name, err.message>>

\* The status and the JSON body the handler sends. details is <<>> when
\* the body has no details key, stack is <<>> when it has no stack key.
ErrorBody(statusCode, message, details, stack) ==
    [status |-> statusCode,
     body |-> [error |-> getErrorName(statusCode), message |-> message,
               details |-> details, stack |-> stack]]

\* Mutant: the stack is put in the body whatever NODE_ENV is.
errorHandler_alwaysStack(err, nodeEnv) ==
    LET statusCode == IF err.statusCode # 0 THEN err.statusCode ELSE 500
        hide == nodeEnv = "production" /\ statusCode = 500
        message == IF hide THEN GenericMessage
                   ELSE IF err.message # "" THEN err.message
                   ELSE "Internal Server Error"
        details == IF hide THEN <<>> ELSE err.details
        stack == StackOf(err)
    IN IF err.name = "ValidationError"
       THEN ErrorBody(400, "Validation Error",
                      IF err.errors # <<>> THEN err.errors ELSE err.details,
                      stack)
       ELSE IF err.name = "JsonWebTokenError"
       THEN ErrorBody(401, "Invalid authentication token", details, stack)
       ELSE IF err.name = "TokenExpiredError"
       THEN ErrorBody(401, "Authentication token expired", details, stack)
       ELSE IF err.name = "UnauthorizedError"
       THEN ErrorBody(401, "Unauthorized access", details, stack)
       ELSE IF err.code \in {"SQLITE_CONSTRAINT", "23505"}
       THEN ErrorBody(409, "Resource conflict (duplicate entry)", details,
                      stack)
       ELSE ErrorBody(statusCode, message, details, stack)

errorHandler(err, nodeEnv) ==
    LET statusCode == IF err.statusCode # 0 THEN err.statusCode ELSE 500
        hide == nodeEnv = "production" /\ statusCode = 500
        message == IF hide THEN GenericMessage
                   ELSE IF err.message # "" THEN err.message
                   ELSE "Internal Server Error"
        details == IF hide THEN <<>> ELSE err.details
        stack == IF nodeEnv # "production" THEN StackOf(err) ELSE <<>>
    IN IF err.name = "ValidationError"
       THEN ErrorBody(400, "Validation Error",
                      IF err.errors # <<>> THEN err.errors ELSE err.details,
                      stack)
       ELSE IF err.name = "JsonWebTokenError"
       THEN ErrorBody(401, "Invalid authentication token", details, stack)
       ELSE IF err.name = "TokenExpiredError"
       THEN ErrorBody(401, "Authentication token expired", details, stack)
       ELSE IF err.name = "UnauthorizedError"
       THEN ErrorBody(401, "Unauthorized access", details, stack)
       ELSE IF err.code \in {"SQLITE_CONSTRAINT", "23505"}
       THEN ErrorBody(409, "Resource conflict (duplicate entry)", details,
                      stack)
       ELSE ErrorBody(statusCode, message, details, stack)

\* An error reaches the handler, which answers. The response keeps the
\* error next to the body (history).
HandleError(err) ==
    /\ resp' = Response("ERROR", "", errorHandler(err, env.NODE_ENV).status,
                        <<errorHandler(err, env.NODE_ENV).body, err>>, FALSE)
    /\ UNCHANGED <<extraVars, adapter, now, contentVars, analyticsVars>>

ErrorNext == \E err \in Errors : HandleError(err)

\* A process under any NODE_ENV.
ErrorInit ==
    /\ adapter = "sqlite"
    /\ now = 0
    /\ sqliteContent = {}
    /\ firestoreContent = {}
    /\ sqliteAnalytics = <<>>
    /\ firestoreAnalytics = <<>>
    /\ resp = Response("none", "", 0, <<>>, FALSE)
    /\ lastInput = [m \in MarkerIds |-> <<>>]
    /\ ingested = <<>>
    /\ AuthIdle
    /\ \E nodeEnv \in NodeEnvs :
           env = [PERPLEXITY_MOCK_MODE |-> FALSE,
                  PERPLEXITY_API_KEY |-> FALSE, ENABLE_PERPLEXITY |-> TRUE,
                  NODE_ENV |-> nodeEnv]
    /\ summarized = NoCall
    /\ ClientIdle
    /\ LifecycleIdle

ErrorSpec == ErrorInit /\ [][ErrorNext]_vars

\* An error response with status 500 sent in production mode.
Production500 ==
    /\ resp.route = "ERROR" /\ resp.status = 500
    /\ env.NODE_ENV = "production"

\* C26: in production mode an error response with status 500 carries the
\* generic message, no details and no stack; the error's own message is
\* not in it.
C26_ProductionHides500 ==
    Production500 =>
        /\ resp.data[1].message = GenericMessage
        /\ resp.data[1].details = <<>>
        /\ resp.data[1].stack = <<>>
        /\ resp.data[1].message # InternalMessage

\* C26 witness: such a response for an exception without a status code
\* that carries an internal message and details.
C26_Witness ==
    /\ Production500
    /\ resp.data[2].statusCode = 0
    /\ resp.data[2].message = InternalMessage
    /\ resp.data[2].details # <<>>


\* ------------------------------------------------------------------------
\* PUT against POST
\* ------------------------------------------------------------------------
\* C27: an authenticated PUT /api/content/:markerId ends with a response:
\* 404 when the marker has no content, and otherwise the response of the
\* POST route (200 after the upsert, or 400 from its validation).
C27_PutTerminates ==
    (resp.route = "PUT" /\ resp.status \notin {401, 403}) =>
        IF resp.existed THEN resp.status \in {200, 400}
                        ELSE resp.status = 404


\* ------------------------------------------------------------------------
\* Expired records
\* ------------------------------------------------------------------------
\* SELECT * FROM content ORDER BY updated_at DESC, each row parsed; the
\* records as a set (their order is not modelled).
sqlite_listAllContent(table) == {parseContentRow(r) : r \in table}

\* Every document of the collection, with its id as markerId.
firebase_listAllContent(docs) ==
    {firebase_getContent(docs, d.id)[1] : d \in docs}

\* Mutant: the list leaves out the records that have expired.
listAllContent_hideExpired ==
    IF adapter = "sqlite"
    THEN {r \in sqlite_listAllContent(sqliteContent) : ~isExpired(r, now)}
    ELSE {r \in firebase_listAllContent(firestoreContent) :
            ~isExpired(r, now)}

\* The facade's listAllContent().
listAllContent ==
    IF adapter = "sqlite" THEN sqlite_listAllContent(sqliteContent)
                          ELSE firebase_listAllContent(firestoreContent)

\* GET /api/content (admin): the response's data is the set of records.
ListContentRoute(token) ==
    /\ resp' =
         IF authenticateToken(token) # 0
         THEN Response("LIST", "", authenticateToken(token), <<>>, FALSE)
         ELSE Response("LIST", "", 200, listAllContent, FALSE)
    /\ UNCHANGED <<extraVars, adapter, now, contentVars, analyticsVars>>

\* The upsert bodies of this part: one that expires at time 1 and one that
\* never expires.
ExpiryBodies ==
    {ExpiringBody, [EmptyBody EXCEPT !.type = "news", !.title = "T"]}

ExpiryNext ==
    \/ \E pathId \in PathMarkerIds : GetContentRoute(pathId)
    \/ \E pathId \in PathMarkerIds, body \in ExpiryBodies :
           PostContentRoute(pathId, "valid", body)
    \/ \E pathId \in PathMarkerIds : DeleteContentRoute(pathId, "valid")
    \/ \E token \in Tokens : ListContentRoute(token)
    \/ Tick

ExpirySpec == AnalyticsInit /\ [][ExpiryNext]_vars

\* The stored records that have expired.
ExpiredRecords ==
    {m \in MarkerIds : getContent(m) # <<>> /\ isExpired(getContent(m)[1], now)}

\* C28: a fetch of an expired record answers 410 with the record's
\* expiresAt in the payload and leaves the store as it was, the record
\* still stored; and the admin list returns the expired records too.
C28_ExpiryIsLogical ==
    [][ /\ \A p \in PathMarkerIds :
             (GetContentRoute(p) /\ Trim(p) \in ExpiredRecords) =>
                 /\ resp'.status = 410
                 /\ resp'.data =
                        <<[expiresAt |-> getContent(Trim(p))[1].expiresAt]>>
                 /\ UNCHANGED <<sqliteContent, firestoreContent>>
                 /\ getContent(Trim(p))' = getContent(Trim(p))
        /\ (resp'.route = "LIST" /\ resp'.status = 200) =>
               \A m \in ExpiredRecords : getContent(m)[1] \in resp'.data
      ]_vars

\* C28 witness: a 410 answered for a record that is still stored, expired.
C28_Witness ==
    /\ resp.route = "GET" /\ resp.status = 410
    /\ Trim(resp.markerId) \in ExpiredRecords
    /\ resp.data[1].expiresAt < now


\* ------------------------------------------------------------------------
\* The key of a record
\* ------------------------------------------------------------------------
\* Upsert bodies the route accepts, without and with a markerId key of
\* their own.
KeyedBodies ==
    { [b EXCEPT !.markerId = k] :
        b \in { [EmptyBody EXCEPT !.type = "news", !.title = "T"],
                [EmptyBody EXCEPT !.type = "image"] },
        k \in {Absent} \cup MarkerIds }

KeyNext ==
    \/ \E pathId \in MarkerIds, body \in KeyedBodies :
           PostContentRoute(pathId, "valid", body)
    \/ \E pathId \in MarkerIds : GetContentRoute(pathId)
    \/ \E pathId \in MarkerIds : DeleteContentRoute(pathId, "valid")

KeySpec == Init /\ [][KeyNext]_vars

\* C29: the record an accepted upsert returns, and the record getContent
\* returns for a marker, carry the markerId of the path under which the
\* record is stored, whatever markerId key the body had.
C29_MarkerIdIsTheKey ==
    /\ (resp.route = "POST" /\ resp.status = 200) =>
           resp.data[1].markerId = Trim(resp.markerId)
    /\ \A m \in MarkerIds :
           getContent(m) # <<>> => getContent(m)[1].markerId = m


\* ------------------------------------------------------------------------
\* The two HTTP write paths
\* ------------------------------------------------------------------------
\* Upsert bodies of each type, with and without the field the type
\* requires, and of a type outside the enumeration.
SaveBodies ==
    { [EmptyBody EXCEPT !.type = "news", !.title = "T"],
      [EmptyBody EXCEPT !.type = "news"],
      [EmptyBody EXCEPT !.type = "news", !.title = ""],
      [EmptyBody EXCEPT !.type = "video", !.videoUrl = "https://a.example/x"],
      [EmptyBody EXCEPT !.type = "video", !.title = "T"],
      [EmptyBody EXCEPT !.type = "3d", !.modelUrl = "https://a.example/x"],
      [EmptyBody EXCEPT !.type = "3d", !.title = "T"],
      [EmptyBody EXCEPT !.type = "image"],
      [EmptyBody EXCEPT !.type = "audio", !.title = "T"],
      [EmptyBody EXCEPT !.title = "T"] }

\* Upserts of every such body and summarize-and-save under every outcome of
\* the API call, for one marker on an empty store.
SaveNext ==
    \/ \E body \in SaveBodies : PostContentRoute("m1", "valid", body)
    \/ \E url \in {"https://a.example/x", "not a url"},
          outcome \in ApiOutcomes :
           SummarizeAndSaveRoute("valid", "m1", url, outcome)

SaveSpec == PerplexityInit /\ [][SaveNext]_vars

\* A record with a type of the enumeration and the field its type requires.
WellTyped(c) ==
    /\ c.type \in ContentTypes
    /\ c.type = "video" => c.videoUrl # Absent
    /\ c.type = "3d" => c.modelUrl # Absent
    /\ c.type = "news" => c.title \notin {Absent, ""}

====
